---- MODULE Spec2Model ----
(***************************************************************************)
(* Model of the local git backup plugin: the commit orchestrator           *)
(* (LocalGitPlugin.performCommit and its strategies), the GitEngine        *)
(* status machine, the change-event debouncer and the commit message       *)
(* builder.  Strings are sequences of code points.                         *)
(***************************************************************************)
EXTENDS Integers, Sequences, FiniteSets

(* ---------------------------------------------------------------------- *)
(* Bounds of the model                                                     *)
(* ---------------------------------------------------------------------- *)
\* number of performCommit invocations that may be suspended at once
MaxInv == 2
\* last instant of the clock
MaxTime == 2
\* clock ticks that stand for one minute of the idle setting
TicksPerMinute == 1
\* largest value of the maxFilesInCommitMessage setting that is tried
MaxFilesSetting == 2
MaxLen == 3
MaxLifeTime == 5
\* the longest numstat output of one diff query
MaxLines == 2

(* ---------------------------------------------------------------------- *)
(* Strings                                                                 *)
(* ---------------------------------------------------------------------- *)
Dot == 46
Slash == 47
Dash == 45
Null == 0 - 1

S_choreUpdate == <<99, 104, 111, 114, 101, 58, 32, 117, 112, 100, 97, 116, 101, 32>>
S_files == <<102, 105, 108, 101, 115>>
S_hiddenFiles == <<104, 105, 100, 100, 101, 110, 32, 102, 105, 108, 101, 115>>
S_deletes == <<32, 91, 68, 69, 76, 69, 84, 69, 83, 93>>
S_commaSpace == <<44, 32>>
S_and == <<32, 97, 110, 100, 32>>
S_more == <<32, 109, 111, 114, 101>>
S_openParen == <<32, 40>>
S_closeParen == <<41>>
S_initialCommit == <<99, 104, 111, 114, 101, 58, 32, 105, 110, 105, 116>>

\* Number.prototype.toString for a non-negative integer
RECURSIVE NumToString(_)
NumToString(n) == IF n < 10 THEN <<48 + n>> ELSE NumToString(n \div 10) \o <<48 + (n % 10)>>

\* parseInt(s, 10) of a string of decimal digits
RECURSIVE ParseInt(_)
ParseInt(s) ==
    IF Len(s) = 0 THEN 0
    ELSE 10 * ParseInt(SubSeq(s, 1, Len(s) - 1)) + (s[Len(s)] - 48)

\* Array.prototype.join
RECURSIVE Join(_, _)
Join(strs, sep) ==
    IF Len(strs) = 0 THEN <<>>
    ELSE IF Len(strs) = 1 THEN strs[1]
    ELSE strs[1] \o sep \o Join(Tail(strs), sep)

\* String.prototype.split on one separator character
RECURSIVE Split(_, _)
Split(s, sep) ==
    IF \A i \in 1..Len(s) : s[i] # sep THEN <<s>>
    ELSE LET k == CHOOSE i \in 1..Len(s) :
                      s[i] = sep /\ \A j \in 1..(i - 1) : s[j] # sep
         IN <<SubSeq(s, 1, k - 1)>> \o Split(SubSeq(s, k + 1, Len(s)), sep)

\* String.prototype.startsWith for a one-character prefix
StartsWith(s, ch) == Len(s) > 0 /\ s[1] = ch

\* Collation weights of String.prototype.localeCompare (default collator):
\* punctuation sorts before letters, letters compare by letter first and,
\* on a tie, lower case before upper case.
PrimaryWeight(c) ==
    IF c >= 65 /\ c <= 90 THEN 1000 + 2 * (c - 65)
    ELSE IF c >= 97 /\ c <= 122 THEN 1000 + 2 * (c - 97)
    ELSE c

TertiaryWeight(c) == IF c >= 65 /\ c <= 90 THEN 1 ELSE 0

\* comparison of two weight sequences: -1, 0 or 1
RECURSIVE LexCompare(_, _)
LexCompare(a, b) ==
    IF Len(a) = 0 /\ Len(b) = 0 THEN 0
    ELSE IF Len(a) = 0 THEN 0 - 1
    ELSE IF Len(b) = 0 THEN 1
    ELSE IF a[1] < b[1] THEN 0 - 1
    ELSE IF a[1] > b[1] THEN 1
    ELSE LexCompare(Tail(a), Tail(b))

PrimaryKey(s) == [i \in 1..Len(s) |-> PrimaryWeight(s[i])]
TertiaryKey(s) == [i \in 1..Len(s) |-> TertiaryWeight(s[i])]

\* mutation: the comparison ignores case
localeCompare_ignoreCase(a, b) == LexCompare(PrimaryKey(a), PrimaryKey(b))

localeCompare(a, b) ==
    LET p == LexCompare(PrimaryKey(a), PrimaryKey(b))
    IN IF p # 0 THEN p ELSE LexCompare(TertiaryKey(a), TertiaryKey(b))

(* ---------------------------------------------------------------------- *)
(* commit-builder                                                          *)
(* ---------------------------------------------------------------------- *)
FileDiffStat(p, a, d) == [path |-> p, additions |-> a, deletions |-> d, netChange |-> a - d]

\* mutation: x goes before the entries it compares equal to
RECURSIVE InsertSorted_unstable(_, _)
InsertSorted_unstable(x, sorted) ==
    IF Len(sorted) = 0 THEN <<x>>
    ELSE IF localeCompare(x.path, sorted[1].path) <= 0 THEN <<x>> \o sorted
    ELSE <<sorted[1]>> \o InsertSorted_unstable(x, Tail(sorted))

\* stable insertion of x into an already sorted list
RECURSIVE InsertSorted(_, _)
InsertSorted(x, sorted) ==
    IF Len(sorted) = 0 THEN <<x>>
    ELSE IF localeCompare(x.path, sorted[1].path) < 0 THEN <<x>> \o sorted
    ELSE <<sorted[1]>> \o InsertSorted(x, Tail(sorted))

\* mutation: the files are left in input order
SortByPath_inputOrder(files) == files

\* [...files].sort((a, b) => a.path.localeCompare(b.path)), a stable sort
RECURSIVE SortByPath(_)
SortByPath(files) ==
    IF Len(files) = 0 THEN <<>>
    ELSE InsertSorted(files[Len(files)], SortByPath(SubSeq(files, 1, Len(files) - 1)))

\* mutation: a file without net change is marked too
hasNetDeletions_orZero(stat) == stat.netChange <= 0

hasNetDeletions(stat) == stat.netChange < 0

formatFileName(stat) == IF hasNetDeletions(stat) THEN stat.path \o S_deletes ELSE stat.path

FormatAll(files) == [i \in 1..Len(files) |-> formatFileName(files[i])]

\* const { files, maxFiles = 5 } = options
DefaultMaxFiles == 5

\* the value the destructuring gives maxFiles: the default when it is omitted
MaxFilesOption(maxFiles) == IF maxFiles = Null THEN DefaultMaxFiles ELSE maxFiles

\* mutation: the empty list is not treated apart
buildCommitMessage_noEmptyCase(files, maxFiles) ==
    LET formattedFiles == FormatAll(SortByPath(files))
        fileList ==
            IF Len(formattedFiles) <= maxFiles
            THEN Join(formattedFiles, S_commaSpace)
            ELSE Join(SubSeq(formattedFiles, 1, maxFiles), S_commaSpace)
                 \o S_and \o NumToString(Len(formattedFiles) - maxFiles) \o S_more
    IN S_choreUpdate \o fileList

\* mutation: a list of exactly maxFiles names is truncated too
buildCommitMessage_strictLimit(files, maxFiles) ==
    IF Len(files) = 0 THEN S_choreUpdate \o S_files
    ELSE LET formattedFiles == FormatAll(SortByPath(files))
             fileList ==
                 IF Len(formattedFiles) < maxFiles
                 THEN Join(formattedFiles, S_commaSpace)
                 ELSE Join(SubSeq(formattedFiles, 1, maxFiles), S_commaSpace)
                      \o S_and \o NumToString(Len(formattedFiles) - maxFiles) \o S_more
         IN S_choreUpdate \o fileList

buildCommitMessage(files, maxFiles) ==
    IF Len(files) = 0 THEN S_choreUpdate \o S_files
    ELSE LET formattedFiles == FormatAll(SortByPath(files))
             fileList ==
                 IF Len(formattedFiles) <= maxFiles
                 THEN Join(formattedFiles, S_commaSpace)
                 ELSE Join(SubSeq(formattedFiles, 1, maxFiles), S_commaSpace)
                      \o S_and \o NumToString(Len(formattedFiles) - maxFiles) \o S_more
         IN S_choreUpdate \o fileList

isHiddenPath(path) ==
    LET pathParts == Split(path, Slash)
    IN \E i \in 1..Len(pathParts) : StartsWith(pathParts[i], Dot)

\* mutation: each group is sorted by path
categorizeFiles_sorted(files) ==
    [hidden |-> SortByPath(SelectSeq(files, LAMBDA f : isHiddenPath(f.path))),
     regular |-> SortByPath(SelectSeq(files, LAMBDA f : ~isHiddenPath(f.path)))]

categorizeFiles(files) ==
    [hidden |-> SelectSeq(files, LAMBDA f : isHiddenPath(f.path)),
     regular |-> SelectSeq(files, LAMBDA f : ~isHiddenPath(f.path))]

\* mutation: the single-file message leaves the marker out
buildSingleFileCommitMessage_bare(stat) == S_choreUpdate \o stat.path

buildSingleFileCommitMessage(stat) == S_choreUpdate \o formatFileName(stat)

\* mutation: the hidden-files message is cut like the batch message
buildHiddenFilesCommitMessage_truncating(files) ==
    IF Len(files) = 0 THEN S_choreUpdate \o S_hiddenFiles
    ELSE LET formattedFiles == FormatAll(SortByPath(files))
         IN S_choreUpdate \o S_hiddenFiles \o S_openParen
            \o (IF Len(formattedFiles) <= DefaultMaxFiles
                THEN Join(formattedFiles, S_commaSpace)
                ELSE Join(SubSeq(formattedFiles, 1, DefaultMaxFiles), S_commaSpace)
                     \o S_and \o NumToString(Len(formattedFiles) - DefaultMaxFiles)
                     \o S_more)
            \o S_closeParen

buildHiddenFilesCommitMessage(files) ==
    IF Len(files) = 0 THEN S_choreUpdate \o S_hiddenFiles
    ELSE S_choreUpdate \o S_hiddenFiles \o S_openParen
         \o Join(FormatAll(SortByPath(files)), S_commaSpace) \o S_closeParen

(* ---------------------------------------------------------------------- *)
(* The vault as git sees it                                                *)
(* ---------------------------------------------------------------------- *)
P_B == <<66>>
P_sub == <<97, 47, 46, 98>>
P_b == <<98>>

\* every file of the vault, in the order git lists paths, with the numstat
\* columns git prints for it when it is modified
GitFiles ==
    << [path |-> P_B, untracked |-> FALSE, addStr |-> <<49>>, delStr |-> <<51>>],
       [path |-> P_sub, untracked |-> FALSE, addStr |-> <<Dash>>, delStr |-> <<Dash>>],
       [path |-> P_b, untracked |-> TRUE, addStr |-> <<48>>, delStr |-> <<48>>] >>

Paths == {GitFiles[i].path : i \in 1..Len(GitFiles)}

SeqToSet(s) == {s[i] : i \in 1..Len(s)}

\* StatusResult.not_added of git.status()
NotAdded(wt) ==
    LET sel == SelectSeq(GitFiles, LAMBDA f : f.untracked /\ f.path \in wt)
    IN [i \in 1..Len(sel) |-> sel[i].path]

\* the lines of git diff --numstat HEAD, already split on the tab
NumstatLines(wt) ==
    LET sel == SelectSeq(GitFiles, LAMBDA f : ~f.untracked /\ f.path \in wt)
    IN [i \in 1..Len(sel) |->
           [addStr |-> sel[i].addStr, delStr |-> sel[i].delStr, path |-> sel[i].path]]

(* ---------------------------------------------------------------------- *)
(* GitEngine                                                               *)
(* ---------------------------------------------------------------------- *)
UntrackedStats(notAdded) == [i \in 1..Len(notAdded) |-> FileDiffStat(notAdded[i], 0, 0)]

\* mutation: the columns of a binary file are parsed like the others
ParseNumstatLine_noBinaryCase(line) ==
    FileDiffStat(line.path, ParseInt(line.addStr), ParseInt(line.delStr))

ParseNumstatLine(line) ==
    IF line.addStr = <<Dash>> \/ line.delStr = <<Dash>>
    THEN FileDiffStat(line.path, 0, 0)
    ELSE FileDiffStat(line.path, ParseInt(line.addStr), ParseInt(line.delStr))

\* the value getDiffStats returns when status reports no tracking branch
DiffStatsNoTracking(notAdded) == UntrackedStats(notAdded)

\* the value getDiffStats returns after the numstat query
DiffStatsTracked(lines, notAdded) ==
    [i \in 1..Len(lines) |-> ParseNumstatLine(lines[i])] \o UntrackedStats(notAdded)

InitialStatus == [state |-> "idle", lastCommitTime |-> Null, lastCommitMessage |-> <<>>]

\* GitEngine.updateStatus: merge the given fields into currentStatus
updateStatus(cur, updates) ==
    [f \in DOMAIN cur |-> IF f \in DOMAIN updates THEN updates[f] ELSE cur[f]]

\* mutation: a failed commit clears the record of the last commit
CommitFailureUpdate_clears ==
    [state |-> "error", lastCommitTime |-> Null, lastCommitMessage |-> <<>>]

\* mutation: a failed commit is reported as idle
CommitFailureUpdate_idle == [state |-> "idle"]

\* the status updates stageAndCommit makes when it starts, succeeds, fails
CommitStartUpdate == [state |-> "committing"]
CommitSuccessUpdate(t, message) ==
    [state |-> "idle", lastCommitTime |-> t, lastCommitMessage |-> message]
CommitFailureUpdate == [state |-> "error"]

\* the status updates of stageAndCommitFiles (start, success, failure)
FilesCommitStartUpdate == [state |-> "committing"]
FilesCommitSuccessUpdate(t, message) ==
    [state |-> "idle", lastCommitTime |-> t, lastCommitMessage |-> message]
FilesCommitFailureUpdate == [state |-> "error"]

\* the status update getDiffStats makes when a query of it fails: none
DiffFailureUpdate == << >>

S_dashA == <<45, 65>>

\* a stageAndCommit(message) call: git add -A, then git commit
StageAndCommitCall(message) ==
    [api |-> "stageAndCommit", paths |-> <<S_dashA>>, message |-> message]

\* a stageAndCommitFiles(paths, message) call
StageAndCommitFilesCall(paths, message) ==
    [api |-> "stageAndCommitFiles", paths |-> paths, message |-> message]

\* git add of the given paths: those of them that have changes
StagedByFiles(paths, wt) == SeqToSet(paths) \cap wt

\* what the staging step of a call puts into the index; git add -A takes
\* every change of the working tree
StagedBy(call, wt) ==
    IF call.api = "stageAndCommit" THEN wt ELSE StagedByFiles(call.paths, wt)

(* ---------------------------------------------------------------------- *)
(* LocalGitPlugin: state                                                   *)
(* ---------------------------------------------------------------------- *)
VARIABLES
    phase,             \* how far onload has come, or "unloaded"
    settings,          \* LocalGitPlugin.settings
    savePending,       \* a saveSettings call is suspended before startTimers
    commitInProgress,  \* LocalGitPlugin.commitInProgress
    currentStatus,     \* GitEngine.currentStatus
    lastEditTime,      \* LocalGitPlugin.lastEditTime
    changeQueue,       \* LocalGitPlugin.changeQueue
    changeTimeout,     \* LocalGitPlugin.changeTimeout: Null or the due time
    debouncePending,   \* the due times of the debounce timeouts not yet fired
    intervalTimer,     \* LocalGitPlugin.intervalTimer and the interval timers of the host
    idleCheckTimer,    \* LocalGitPlugin.idleCheckTimer and the idle-poll timers of the host
    now,               \* Date.now()
    worktree,          \* paths that differ from HEAD in the working tree
    inv,               \* the performCommit invocations, by slot
    unguardedDiffs,    \* getDiffStats calls made while a commit was in progress
    lastCall,          \* the performCommit call made by the last step
    settled            \* the invocation the last step brought to its end

vars == <<phase, settings, savePending, commitInProgress, currentStatus, lastEditTime,
          changeQueue, changeTimeout, debouncePending, intervalTimer, idleCheckTimer,
          now, worktree, inv, unguardedDiffs, lastCall, settled>>

Slots == 1..MaxInv
Triggers == {"manual", "interval", "idle"}
CommitModes == {"batch", "individual"}
HiddenModes == {"group", "separate", "never", "gitignore-only"}

IdleMinutesValues == {1, 3}

SettingsDomain ==
    [commitMode : CommitModes,
     hiddenFilesHandling : HiddenModes,
     maxFilesInCommitMessage : 1..MaxFilesSetting,
     enableIntervalCommit : BOOLEAN,
     enableIdleCommit : BOOLEAN,
     idleMinutes : IdleMinutesValues]

\* the settings the commit strategies are explored with
CommitSettings ==
    {st \in SettingsDomain : /\ st.maxFilesInCommitMessage = MaxFilesSetting
                             /\ st.idleMinutes = 1
                             /\ st.enableIntervalCommit
                             /\ st.enableIdleCommit}

\* 2000 ms of the debounce, in clock ticks
DebounceDelay == 2

(* Notices *)
Notice(text, n, m, msg) == [text |-> text, n |-> n, m |-> m, msg |-> msg]
NoNotice == Notice("", 0, 0, <<>>)
N_inProgress == Notice("Commit already in progress", 0, 0, <<>>)
N_noChanges == Notice("No changes to commit", 0, 0, <<>>)
N_notInit == Notice("Git repository not initialized. Check plugin settings.", 0, 0, <<>>)
N_permission == Notice("Permission denied. Check file permissions.", 0, 0, <<>>)
N_failed(msg) == Notice("Commit failed: ", 0, 0, msg)
N_committed(n) == Notice("Committed n file(s)", n, 0, <<>>)
N_committedIn(n, m) == Notice("Committed n file(s) in m commit(s)", n, m, <<>>)
N_created(m, n) == Notice("Created m commit(s) for n file(s)", n, m, <<>>)

(* Error messages of the collaborator, as sequences of fragments *)
E_notRepo == <<"fatal: ", "not a git repository">>
E_permission == <<"error: ", "permission denied">>
E_both == <<"permission denied", ": ", "not a git repository">>
E_other == <<"index.lock exists">>
E_capital == <<"error: ", "Permission denied">>
Errors == {E_notRepo, E_permission, E_both, E_other, E_capital}

\* String.prototype.includes, on fragments
Includes(msg, fragment) == \E i \in 1..Len(msg) : msg[i] = fragment

\* mutation: the permission test comes first
ErrorNotice_permissionFirst(errorMsg) ==
    IF Includes(errorMsg, "permission denied") THEN N_permission
    ELSE IF Includes(errorMsg, "not a git repository") THEN N_notInit
    ELSE N_failed(errorMsg)

\* the notice of the catch block of performCommit
ErrorNotice(errorMsg) ==
    IF Includes(errorMsg, "not a git repository") THEN N_notInit
    ELSE IF Includes(errorMsg, "permission denied") THEN N_permission
    ELSE N_failed(errorMsg)

\* a timer field of the plugin with the repeating timers the host runs for
\* it: handle is the field (null, or the id of the timer it refers to), live
\* the ids of the timers that have been set and not cleared; setInterval
\* gives a timer an id no other timer has
NoTimer == [handle |-> Null, live |-> <<>>]

NoCall == [op |-> "none", trigger |-> "none", accepted |-> FALSE, notice |-> NoNotice]

InvNone ==
    [pc |-> "none", trigger |-> "none", entryState |-> "none",
     notAdded |-> <<>>, stats |-> <<>>,
     filterHidden |-> "none", routeHidden |-> "none",
     mode |-> "none", plan |-> <<>>, calls |-> <<>>, staged |-> {},
     successNotice |-> NoNotice, outcome |-> "none", notice |-> NoNotice,
     error |-> <<>>, notices |-> <<>>, rejects |-> FALSE]

\* no continuation of a settled promise is waiting to run
NoMicrotask == \A i \in Slots : inv[i].pc # "next"

\* the plugin object as constructed, before onload has loaded the settings
Constructed ==
    /\ phase = "checkGit"
    /\ savePending = FALSE
    /\ commitInProgress = FALSE
    /\ currentStatus = InitialStatus
    /\ now = 1
    /\ lastEditTime = 1
    /\ changeQueue = {}
    /\ changeTimeout = Null
    /\ debouncePending = {}
    /\ intervalTimer = NoTimer
    /\ idleCheckTimer = NoTimer
    /\ worktree = {}
    /\ inv = [i \in Slots |-> InvNone]
    /\ unguardedDiffs = 0
    /\ lastCall = NoCall
    /\ settled = InvNone

Init == settings \in CommitSettings /\ Constructed

(* ---------------------------------------------------------------------- *)
(* Timers                                                                  *)
(* ---------------------------------------------------------------------- *)
\* a callback of this kind can run
TimerActive(timer) == Len(timer.live) > 0

\* one branch of stopTimers: clearInterval of the timer the field refers to
StopTimer(timer) ==
    IF timer.handle # Null
    THEN [handle |-> Null, live |-> SelectSeq(timer.live, LAMBDA id : id # timer.handle)]
    ELSE timer

\* mutation: startTimers sets the new timer without stopping the old one
StartTimer_noStop(timer, enabled) ==
    LET id == CHOOSE n \in 0..(Len(timer.live) + 1) :
                  /\ n # timer.handle
                  /\ \A k \in 1..Len(timer.live) : timer.live[k] # n
                  /\ \A m \in 0..(n - 1) :
                         m = timer.handle \/ \E k \in 1..Len(timer.live) : timer.live[k] = m
    IN IF enabled THEN [handle |-> id, live |-> Append(timer.live, id)] ELSE timer

\* startTimers for one kind: stopTimers first, then setInterval if enabled;
\* the new timer has the least id that no live timer and not the timer just
\* cleared has
StartTimer(timer, enabled) ==
    LET stopped == StopTimer(timer)
        id == CHOOSE n \in 0..(Len(timer.live) + 1) :
                  /\ n # timer.handle
                  /\ \A k \in 1..Len(timer.live) : timer.live[k] # n
                  /\ \A m \in 0..(n - 1) :
                         m = timer.handle \/ \E k \in 1..Len(timer.live) : timer.live[k] = m
    IN IF enabled
       THEN [handle |-> id, live |-> Append(stopped.live, id)]
       ELSE stopped

\* startTimers: stopTimers, then one timer per enabled kind
startTimers ==
    /\ intervalTimer' = StartTimer(intervalTimer, settings.enableIntervalCommit)
    /\ idleCheckTimer' = StartTimer(idleCheckTimer, settings.enableIdleCommit)

\* stopTimers
stopTimers ==
    /\ intervalTimer' = StopTimer(intervalTimer)
    /\ idleCheckTimer' = StopTimer(idleCheckTimer)

(* ---------------------------------------------------------------------- *)
(* Commit strategies                                                       *)
(* ---------------------------------------------------------------------- *)
PathsOf(files) == [i \in 1..Len(files) |-> files[i].path]

\* mutation: only a path that itself starts with a dot counts as hidden
filterFilesBySettings_leadingDot(stats, hiddenFilesHandling) ==
    IF hiddenFilesHandling = "never"
    THEN SelectSeq(stats, LAMBDA stat : ~StartsWith(stat.path, Dot))
    ELSE stats

\* filterFilesBySettings for the modes it decides without the collaborator
filterFilesBySettings(stats, hiddenFilesHandling) ==
    IF hiddenFilesHandling = "never"
    THEN SelectSeq(stats, LAMBDA stat : ~isHiddenPath(stat.path))
    ELSE stats

\* GitEngine.filterIgnoredFiles: the stats whose path no ignore rule matches
filterIgnoredFiles(stats, ignored) == SelectSeq(stats, LAMBDA stat : stat.path \notin ignored)

\* mutation: the hidden files are committed before the regular ones
performBatchCommit_hiddenFirst(stats, st) ==
    IF st.hiddenFilesHandling = "separate"
    THEN LET cat == categorizeFiles(stats)
             regularCall ==
                 IF Len(cat.regular) > 0
                 THEN <<StageAndCommitFilesCall(PathsOf(cat.regular),
                           buildCommitMessage(cat.regular, st.maxFilesInCommitMessage))>>
                 ELSE <<>>
             hiddenCall ==
                 IF Len(cat.hidden) > 0
                 THEN <<StageAndCommitFilesCall(PathsOf(cat.hidden),
                           buildHiddenFilesCommitMessage(cat.hidden))>>
                 ELSE <<>>
         IN [calls |-> hiddenCall \o regularCall,
             notice |-> N_committedIn(Len(stats), Len(hiddenCall \o regularCall))]
    ELSE [calls |-> <<StageAndCommitCall(
                          buildCommitMessage(stats, st.maxFilesInCommitMessage))>>,
          notice |-> N_committed(Len(stats))]

\* mutation: the grouped message names the regular files only
performBatchCommit_regularMessage(stats, st) ==
    [calls |-> <<StageAndCommitCall(
                     buildCommitMessage(categorizeFiles(stats).regular,
                                        st.maxFilesInCommitMessage))>>,
     notice |-> N_committed(Len(stats))]

\* performBatchCommit: the calls it makes, in order, and its closing notice
performBatchCommit(stats, st) ==
    IF st.hiddenFilesHandling = "separate"
    THEN LET cat == categorizeFiles(stats)
             regularCall ==
                 IF Len(cat.regular) > 0
                 THEN <<StageAndCommitFilesCall(PathsOf(cat.regular),
                           buildCommitMessage(cat.regular, st.maxFilesInCommitMessage))>>
                 ELSE <<>>
             hiddenCall ==
                 IF Len(cat.hidden) > 0
                 THEN <<StageAndCommitFilesCall(PathsOf(cat.hidden),
                           buildHiddenFilesCommitMessage(cat.hidden))>>
                 ELSE <<>>
             commitCount == (IF Len(cat.regular) > 0 THEN 1 ELSE 0)
                            + (IF Len(cat.hidden) > 0 THEN 1 ELSE 0)
         IN [calls |-> regularCall \o hiddenCall,
             notice |-> N_committedIn(Len(stats), commitCount)]
    ELSE [calls |-> <<StageAndCommitCall(
                          buildCommitMessage(stats, st.maxFilesInCommitMessage))>>,
          notice |-> N_committed(Len(stats))]

\* mutation: every single-file commit stages all the files
SingleFileCalls_stageAll(files) ==
    [i \in 1..Len(files) |->
        StageAndCommitFilesCall(PathsOf(files), buildSingleFileCommitMessage(files[i]))]

\* one stageAndCommitFiles call per file, in the order of the list
SingleFileCalls(files) ==
    [i \in 1..Len(files) |->
        StageAndCommitFilesCall(<<files[i].path>>, buildSingleFileCommitMessage(files[i]))]

\* mutation: the hidden files are committed one by one like the regular ones
performIndividualCommits_hiddenSingly(stats, st) ==
    [calls |-> IF st.hiddenFilesHandling = "separate"
               THEN SingleFileCalls(categorizeFiles(stats).regular)
                    \o SingleFileCalls(categorizeFiles(stats).hidden)
               ELSE SingleFileCalls(stats),
     notice |-> N_created(Len(stats), Len(stats))]

\* performIndividualCommits: the calls it makes, in order, and its closing notice
performIndividualCommits(stats, st) ==
    LET calls ==
            IF st.hiddenFilesHandling = "separate"
            THEN LET cat == categorizeFiles(stats)
                 IN SingleFileCalls(cat.regular)
                    \o (IF Len(cat.hidden) > 0
                        THEN <<StageAndCommitFilesCall(PathsOf(cat.hidden),
                                  buildHiddenFilesCommitMessage(cat.hidden))>>
                        ELSE <<>>)
            ELSE SingleFileCalls(stats)
    IN [calls |-> calls, notice |-> N_created(Len(calls), Len(stats))]

\* the routing of performCommit by commit mode
RouteCommit(stats, st) ==
    IF st.commitMode = "individual"
    THEN performIndividualCommits(stats, st)
    ELSE performBatchCommit(stats, st)

\* the mode the routing took, as "<commitMode>+<separate|group>"
RouteMode(st) ==
    [commitMode |-> st.commitMode, separate |-> st.hiddenFilesHandling = "separate"]

StartUpdateOf(call) ==
    IF call.api = "stageAndCommit" THEN CommitStartUpdate ELSE FilesCommitStartUpdate
SuccessUpdateOf(call, t) ==
    IF call.api = "stageAndCommit" THEN CommitSuccessUpdate(t, call.message)
    ELSE FilesCommitSuccessUpdate(t, call.message)
FailureUpdateOf(call) ==
    IF call.api = "stageAndCommit" THEN CommitFailureUpdate ELSE FilesCommitFailureUpdate

Pending(call) ==
    [api |-> call.api, paths |-> call.paths, message |-> call.message,
     result |-> "pending", committed |-> {}]

SetLast(calls, result, committed) ==
    [calls EXCEPT ![Len(calls)].result = result, ![Len(calls)].committed = committed]

(* ---------------------------------------------------------------------- *)
(* performCommit                                                           *)
(* ---------------------------------------------------------------------- *)
\* mutation: the guard lets every call through
GuardRejects_never(inProgress) == FALSE

\* the guard at the head of performCommit
GuardRejects(inProgress) == inProgress

\* mutation: the rejection is announced for every trigger
RejectNotice_always(triggeredBy) == N_inProgress

\* the notice of a rejected call
RejectNotice(triggeredBy) == IF triggeredBy = "manual" THEN N_inProgress ELSE NoNotice

\* mutation: the guard is left set
FinallyGuard_stuck == TRUE

\* the finally block
FinallyGuard == FALSE

\* mutation: the catch block throws the error on, as those of GitEngine do
CatchRethrows_yes == TRUE

\* the catch block of performCommit ends without a throw
CatchRethrows == FALSE

\* handleGitError, the onError callback: the notices it creates
HandleGitErrorNotices(error) == <<>>

\* the collaborator has reported the error to onError and thrown it
Thrown(r, err) == [r EXCEPT !.error = err, !.notices = HandleGitErrorNotices(err)]

\* the return in the try block, or the catch block, followed by finally
Finish(i, r, outcome, notice) ==
    /\ inv' = [inv EXCEPT ![i] = InvNone]
    /\ settled' = [r EXCEPT !.pc = "done", !.outcome = outcome, !.notice = notice,
                            !.notices = r.notices \o (IF notice # NoNotice
                                                      THEN <<notice>> ELSE <<>>),
                            !.rejects = (outcome = "failed" /\ CatchRethrows),
                            !.plan = <<>>, !.staged = {}]
    /\ commitInProgress' = FinallyGuard

\* mutation: the empty set is announced for every trigger
EmptyNotice_always(triggeredBy) == N_noChanges

\* the notice of the empty filtered set
EmptyNotice(triggeredBy) == IF triggeredBy = "manual" THEN N_noChanges ELSE NoNotice

\* mutation: the closing notice is surfaced for every trigger
ClosingNotice_always(triggeredBy, notice) == notice

\* the closing notice of a strategy
ClosingNotice(triggeredBy, notice) == IF triggeredBy = "manual" THEN notice ELSE NoNotice

\* performCommit from the filtered stats on: the empty case, or the routing
\* and the start of the first stage+commit call
AfterFilter(i, r, filtered) ==
    IF Len(filtered) = 0
    THEN /\ Finish(i, [r EXCEPT !.stats = filtered], "empty", EmptyNotice(r.trigger))
         /\ UNCHANGED currentStatus
    ELSE LET route == RouteCommit(filtered, settings)
             first == route.calls[1]
         IN /\ inv' = [inv EXCEPT ![i] =
                          [r EXCEPT !.pc = "add", !.stats = filtered,
                                    !.mode = RouteMode(settings),
                                    !.routeHidden = settings.hiddenFilesHandling,
                                    !.plan = Tail(route.calls),
                                    !.calls = <<Pending(first)>>,
                                    !.successNotice = route.notice]]
            /\ currentStatus' = updateStatus(currentStatus, StartUpdateOf(first))
            /\ UNCHANGED commitInProgress
            /\ settled' = InvNone

\* performCommit from the result of getDiffStats on
AfterStats(i, r, stats) ==
    IF settings.hiddenFilesHandling = "gitignore-only"
    THEN /\ inv' = [inv EXCEPT ![i] =
                       [r EXCEPT !.pc = "filter", !.stats = stats,
                                 !.filterHidden = settings.hiddenFilesHandling]]
         /\ UNCHANGED <<currentStatus, commitInProgress>>
         /\ settled' = InvNone
    ELSE AfterFilter(i, [r EXCEPT !.filterHidden = settings.hiddenFilesHandling],
                     filterFilesBySettings(stats, settings.hiddenFilesHandling))

FreeSlots == {i \in Slots : inv[i].pc = "none"}

\* performCommit(triggeredBy), up to its first suspension
performCommit(triggeredBy) ==
    IF GuardRejects(commitInProgress)
    THEN /\ lastCall' = [op |-> "performCommit", trigger |-> triggeredBy,
                         accepted |-> FALSE, notice |-> RejectNotice(triggeredBy)]
         /\ settled' = InvNone
         /\ UNCHANGED <<phase, settings, savePending, commitInProgress, currentStatus,
                        lastEditTime, changeQueue, changeTimeout, debouncePending,
                        intervalTimer, idleCheckTimer, now, worktree, inv,
                        unguardedDiffs>>
    ELSE /\ FreeSlots # {}
         /\ LET i == CHOOSE k \in FreeSlots : \A j \in FreeSlots : k <= j
            IN inv' = [inv EXCEPT ![i] = [InvNone EXCEPT !.pc = "status",
                                                         !.trigger = triggeredBy,
                                                         !.entryState = currentStatus.state]]
         /\ commitInProgress' = TRUE
         /\ unguardedDiffs' = IF commitInProgress THEN 1 ELSE unguardedDiffs
         /\ lastCall' = [op |-> "performCommit", trigger |-> triggeredBy,
                         accepted |-> TRUE, notice |-> NoNotice]
         /\ settled' = InvNone
         /\ UNCHANGED <<phase, settings, savePending, currentStatus, lastEditTime,
                        changeQueue, changeTimeout, debouncePending, intervalTimer,
                        idleCheckTimer, now, worktree>>

\* variables no step of a running invocation touches
InvFrame ==
    UNCHANGED <<phase, settings, savePending, lastEditTime, changeQueue, changeTimeout,
                debouncePending, intervalTimer, idleCheckTimer, now, unguardedDiffs>>

\* git.status() of getDiffStats settles
SettleStatus(i) ==
    /\ NoMicrotask
    /\ inv[i].pc = "status"
    /\ lastCall' = NoCall
    /\ InvFrame
    /\ UNCHANGED worktree
    /\ \/ \E err \in Errors :
             /\ Finish(i, Thrown(inv[i], err), "failed", ErrorNotice(err))
             /\ currentStatus' = updateStatus(currentStatus, DiffFailureUpdate)
       \/ \E tracking \in BOOLEAN :
             IF ~tracking
             THEN AfterStats(i, inv[i], DiffStatsNoTracking(NotAdded(worktree)))
             ELSE /\ inv' = [inv EXCEPT ![i].pc = "diff",
                                        ![i].notAdded = NotAdded(worktree)]
                  /\ UNCHANGED <<currentStatus, commitInProgress>>
                  /\ settled' = InvNone

\* git.raw(['diff', '--numstat', 'HEAD']) of getDiffStats settles
SettleDiff(i) ==
    /\ NoMicrotask
    /\ inv[i].pc = "diff"
    /\ lastCall' = NoCall
    /\ InvFrame
    /\ UNCHANGED worktree
    /\ \/ \E err \in Errors :
             /\ Finish(i, Thrown(inv[i], err), "failed", ErrorNotice(err))
             /\ currentStatus' = updateStatus(currentStatus, DiffFailureUpdate)
       \/ AfterStats(i, inv[i], DiffStatsTracked(NumstatLines(worktree), inv[i].notAdded))

\* the status update filterIgnoredFiles makes when it fails
FilterFailureUpdate == [state |-> "error"]

\* gitEngine.filterIgnoredFiles(stats) settles
SettleFilter(i) ==
    /\ NoMicrotask
    /\ inv[i].pc = "filter"
    /\ lastCall' = NoCall
    /\ InvFrame
    /\ UNCHANGED worktree
    /\ \/ \E err \in Errors :
             /\ Finish(i, Thrown(inv[i], err), "failed", ErrorNotice(err))
             /\ currentStatus' = updateStatus(currentStatus, FilterFailureUpdate)
       \/ \E ignored \in SUBSET SeqToSet(PathsOf(inv[i].stats)) :
             AfterFilter(i, inv[i], filterIgnoredFiles(inv[i].stats, ignored))

\* mutation: the failure is caught inside the loop and the next call is made
FailCall_continues(i, err) ==
    LET r == inv[i]
        call == r.calls[Len(r.calls)]
        failed == [r EXCEPT !.calls = SetLast(r.calls, "failed", {}), !.staged = {}]
    IN /\ currentStatus' = updateStatus(currentStatus, FailureUpdateOf(call))
       /\ IF Len(r.plan) > 0
          THEN /\ inv' = [inv EXCEPT ![i] = [failed EXCEPT !.pc = "next"]]
               /\ UNCHANGED commitInProgress
               /\ settled' = InvNone
          ELSE Finish(i, Thrown(failed, err), "failed", ErrorNotice(err))

\* the catch block of stageAndCommit and of performCommit, then finally
FailCall(i, err) ==
    LET r == inv[i]
        call == r.calls[Len(r.calls)]
    IN /\ currentStatus' = updateStatus(currentStatus, FailureUpdateOf(call))
       /\ Finish(i, Thrown([r EXCEPT !.calls = SetLast(r.calls, "failed", {}),
                                      !.staged = {}], err),
                 "failed", ErrorNotice(err))

\* the staging step (git add) of the current call settles
SettleAdd(i) ==
    /\ NoMicrotask
    /\ inv[i].pc = "add"
    /\ lastCall' = NoCall
    /\ InvFrame
    /\ UNCHANGED worktree
    /\ \/ \E err \in Errors : FailCall(i, err)
       \/ /\ inv' = [inv EXCEPT ![i].pc = "commit",
                                ![i].staged =
                                    StagedBy(inv[i].calls[Len(inv[i].calls)], worktree)]
          /\ UNCHANGED <<currentStatus, commitInProgress>>
          /\ settled' = InvNone

\* the commit step (git commit) of the current call settles
SettleCommit(i) ==
    /\ NoMicrotask
    /\ inv[i].pc = "commit"
    /\ lastCall' = NoCall
    /\ InvFrame
    /\ \/ /\ \E err \in Errors : FailCall(i, err)
          /\ UNCHANGED worktree
       \/ LET r == inv[i]
              call == r.calls[Len(r.calls)]
              done == [r EXCEPT !.calls = SetLast(r.calls, "ok", r.staged),
                                !.staged = {}]
          IN /\ currentStatus' = updateStatus(currentStatus, SuccessUpdateOf(call, now))
             /\ worktree' = worktree \ r.staged
             /\ IF Len(r.plan) > 0
                THEN /\ inv' = [inv EXCEPT ![i] = [done EXCEPT !.pc = "next"]]
                     /\ UNCHANGED commitInProgress
                     /\ settled' = InvNone
                ELSE Finish(i, done, "ok", ClosingNotice(r.trigger, r.successNotice))

\* mutation: the stats are queried again before the next partial commit
StartNext_requery(i) ==
    /\ inv[i].pc = "next"
    /\ lastCall' = NoCall
    /\ InvFrame
    /\ UNCHANGED <<worktree, commitInProgress, currentStatus>>
    /\ inv' = [inv EXCEPT ![i].pc = "status"]
    /\ settled' = InvNone

\* mutation: the guard is released between two partial commits
StartNext_unguarded(i) ==
    /\ inv[i].pc = "next"
    /\ lastCall' = NoCall
    /\ InvFrame
    /\ UNCHANGED worktree
    /\ commitInProgress' = FALSE
    /\ LET r == inv[i]
           call == r.plan[1]
       IN /\ inv' = [inv EXCEPT ![i] = [r EXCEPT !.pc = "add", !.plan = Tail(r.plan),
                                                 !.calls = Append(r.calls, Pending(call))]]
          /\ currentStatus' = updateStatus(currentStatus, StartUpdateOf(call))
          /\ settled' = InvNone

\* the strategy goes on to its next stage+commit call
StartNext(i) ==
    /\ inv[i].pc = "next"
    /\ lastCall' = NoCall
    /\ InvFrame
    /\ UNCHANGED <<worktree, commitInProgress>>
    /\ LET r == inv[i]
           call == r.plan[1]
       IN /\ inv' = [inv EXCEPT ![i] = [r EXCEPT !.pc = "add", !.plan = Tail(r.plan),
                                                 !.calls = Append(r.calls, Pending(call))]]
          /\ currentStatus' = updateStatus(currentStatus, StartUpdateOf(call))
          /\ settled' = InvNone

(* ---------------------------------------------------------------------- *)
(* Triggers                                                                *)
(* ---------------------------------------------------------------------- *)
\* mutation: the command is added before initializeGit is awaited
CommandRegistered_beforeInit == phase \in {"loaded", "initRepo", "initAdd", "initCommit"}

\* mutation: the command is added before the check for git
CommandRegistered_early == phase \in {"loaded", "disabled"}

\* onload has reached addRibbonIcon and addCommand, and onunload has not run
CommandRegistered == phase = "loaded"

\* the ribbon icon or the command
ManualCommit ==
    /\ NoMicrotask
    /\ CommandRegistered
    /\ performCommit("manual")

\* the callback of the interval timer
IntervalFire ==
    /\ NoMicrotask
    /\ TimerActive(intervalTimer)
    /\ performCommit("interval")

\* the idle threshold, in clock ticks
IdleMs == settings.idleMinutes * TicksPerMinute

\* checkIdleStatus, the callback of the idle-poll timer
checkIdleStatus ==
    /\ NoMicrotask
    /\ TimerActive(idleCheckTimer)
    /\ IF (now - lastEditTime) >= IdleMs /\ ~commitInProgress
       THEN performCommit("idle")
       ELSE /\ lastCall' = NoCall
            /\ settled' = InvNone
            /\ UNCHANGED <<phase, settings, savePending, commitInProgress, currentStatus,
                           lastEditTime, changeQueue, changeTimeout, debouncePending,
                           intervalTimer, idleCheckTimer, now, worktree, inv,
                           unguardedDiffs>>

(* ---------------------------------------------------------------------- *)
(* onload and onunload                                                     *)
(* ---------------------------------------------------------------------- *)
LoadFrame ==
    /\ lastCall' = NoCall
    /\ settled' = InvNone
    /\ UNCHANGED <<settings, savePending, commitInProgress, lastEditTime, changeQueue,
                   changeTimeout, debouncePending, now, inv, unguardedDiffs>>

\* the end of onload: events registered, timers started, command added
FinishLoad ==
    /\ phase' = "loaded"
    /\ startTimers

\* checkGitInstalled settles
CheckGitInstalled ==
    /\ phase = "checkGit"
    /\ LoadFrame
    /\ UNCHANGED <<currentStatus, worktree, intervalTimer, idleCheckTimer>>
    /\ \E gitInstalled \in BOOLEAN :
          phase' = IF gitInstalled THEN "isRepo" ELSE "disabled"

\* isGitRepo of initializeGit settles
IsGitRepo ==
    /\ phase = "isRepo"
    /\ LoadFrame
    /\ UNCHANGED <<currentStatus, worktree>>
    /\ \E isRepo \in BOOLEAN :
          IF isRepo THEN FinishLoad
          ELSE /\ phase' = "initRepo"
               /\ UNCHANGED <<intervalTimer, idleCheckTimer>>

\* initializeRepo settles; on success the initial stageAndCommit starts
InitializeRepo ==
    /\ phase = "initRepo"
    /\ LoadFrame
    /\ UNCHANGED worktree
    /\ \/ /\ currentStatus' = updateStatus(updateStatus(currentStatus, [state |-> "idle"]),
                                           CommitStartUpdate)
          /\ phase' = "initAdd"
          /\ UNCHANGED <<intervalTimer, idleCheckTimer>>
       \/ /\ UNCHANGED currentStatus
          /\ FinishLoad

\* git add of the initial commit settles
InitialAdd ==
    /\ phase = "initAdd"
    /\ LoadFrame
    /\ UNCHANGED worktree
    /\ \/ /\ phase' = "initCommit"
          /\ UNCHANGED <<currentStatus, intervalTimer, idleCheckTimer>>
       \/ /\ currentStatus' = updateStatus(currentStatus, CommitFailureUpdate)
          /\ FinishLoad

\* git commit of the initial commit settles
InitialCommit ==
    /\ phase = "initCommit"
    /\ LoadFrame
    /\ \/ /\ currentStatus' =
                 updateStatus(currentStatus, CommitSuccessUpdate(now, S_initialCommit))
          /\ worktree' = {}
          /\ FinishLoad
       \/ /\ currentStatus' = updateStatus(currentStatus, CommitFailureUpdate)
          /\ UNCHANGED worktree
          /\ FinishLoad

\* onunload
onunload ==
    /\ NoMicrotask
    /\ phase = "loaded"
    /\ phase' = "unloaded"
    /\ stopTimers
    /\ lastCall' = NoCall
    /\ settled' = InvNone
    /\ UNCHANGED <<settings, savePending, commitInProgress, currentStatus, lastEditTime,
                   changeQueue, changeTimeout, debouncePending, now, worktree, inv,
                   unguardedDiffs>>

(* ---------------------------------------------------------------------- *)
(* Debouncer, settings, environment                                        *)
(* ---------------------------------------------------------------------- *)
\* mutation: the timeout scheduled before is left running
ClearTimeout_none(timers, handle) == timers

\* clearTimeout(handle) under the test of the handle: a timeout is known by
\* its due time; clearing one that has fired changes nothing
ClearTimeout(timers, handle) == IF handle # Null THEN timers \ {handle} ELSE timers

\* mutation: queueFileChange stamps the edit time itself
queueFileChange_stamps(path) ==
    /\ changeQueue' = changeQueue \cup {path}
    /\ changeTimeout' = now + DebounceDelay
    /\ debouncePending' =
           ClearTimeout(debouncePending, changeTimeout) \cup {now + DebounceDelay}
    /\ lastEditTime' = now

\* queueFileChange(path)
queueFileChange(path) ==
    /\ changeQueue' = changeQueue \cup {path}
    /\ changeTimeout' = now + DebounceDelay
    /\ debouncePending' =
           ClearTimeout(debouncePending, changeTimeout) \cup {now + DebounceDelay}
    /\ UNCHANGED lastEditTime

\* a file of the vault changes on disk
WorkTreeChange(path) ==
    /\ NoMicrotask
    /\ path \notin worktree
    /\ worktree' = worktree \cup {path}
    /\ lastCall' = NoCall
    /\ settled' = InvNone
    /\ UNCHANGED <<phase, settings, savePending, commitInProgress, currentStatus,
                   lastEditTime, changeQueue, changeTimeout, debouncePending,
                   intervalTimer, idleCheckTimer, now, inv, unguardedDiffs>>

\* the modify, create, delete and rename listeners of the vault
VaultEvent(path) ==
    /\ NoMicrotask
    /\ phase = "loaded"
    /\ queueFileChange(path)
    /\ lastCall' = NoCall
    /\ settled' = InvNone
    /\ UNCHANGED <<phase, settings, savePending, commitInProgress, currentStatus,
                   intervalTimer, idleCheckTimer, now, worktree, inv, unguardedDiffs>>

\* the callback of a debounce timeout that has come due
DebounceFire ==
    /\ NoMicrotask
    /\ \E due \in debouncePending :
          /\ now >= due
          /\ debouncePending' = debouncePending \ {due}
    /\ lastEditTime' = now
    /\ changeQueue' = {}
    /\ lastCall' = NoCall
    /\ settled' = InvNone
    /\ UNCHANGED <<phase, settings, savePending, commitInProgress, currentStatus,
                   changeTimeout, intervalTimer, idleCheckTimer, now, worktree, inv,
                   unguardedDiffs>>

\* an onChange handler of the settings tab, up to the await of saveSettings
ChangeSetting(field, value) ==
    /\ NoMicrotask
    /\ phase = "loaded"
    /\ settings[field] # value
    /\ settings' = [settings EXCEPT ![field] = value]
    /\ savePending' = TRUE
    /\ lastCall' = NoCall
    /\ settled' = InvNone
    /\ UNCHANGED <<phase, commitInProgress, currentStatus, lastEditTime, changeQueue,
                   changeTimeout, debouncePending, intervalTimer, idleCheckTimer, now,
                   worktree, inv, unguardedDiffs>>

\* saveSettings resumes: startTimers
FinishSave ==
    /\ NoMicrotask
    /\ savePending
    /\ savePending' = FALSE
    /\ startTimers
    /\ lastCall' = NoCall
    /\ settled' = InvNone
    /\ UNCHANGED <<phase, settings, commitInProgress, currentStatus, lastEditTime,
                   changeQueue, changeTimeout, debouncePending, now, worktree, inv,
                   unguardedDiffs>>

\* time passes, up to the given horizon
TickTo(horizon) ==
    /\ NoMicrotask
    /\ now < horizon
    /\ now' = now + 1
    /\ lastCall' = NoCall
    /\ settled' = InvNone
    /\ UNCHANGED <<phase, settings, savePending, commitInProgress, currentStatus,
                   lastEditTime, changeQueue, changeTimeout, debouncePending,
                   intervalTimer, idleCheckTimer, worktree, inv, unguardedDiffs>>

Tick == TickTo(MaxTime)

\* the orchestrator with its triggers and its collaborator
Next ==
    \/ CheckGitInstalled
    \/ IsGitRepo
    \/ InitializeRepo
    \/ InitialAdd
    \/ InitialCommit
    \/ ManualCommit
    \/ IntervalFire
    \/ checkIdleStatus
    \/ \E i \in Slots : SettleStatus(i)
    \/ \E i \in Slots : SettleDiff(i)
    \/ \E i \in Slots : SettleFilter(i)
    \/ \E i \in Slots : SettleAdd(i)
    \/ \E i \in Slots : SettleCommit(i)
    \/ \E i \in Slots : StartNext(i)
    \/ \E path \in Paths : WorkTreeChange(path)
    \/ Tick

Spec == Init /\ [][Next]_vars

\* the orchestrator at one instant of the clock
FairNext ==
    \/ CheckGitInstalled
    \/ IsGitRepo
    \/ InitializeRepo
    \/ InitialAdd
    \/ InitialCommit
    \/ ManualCommit
    \/ IntervalFire
    \/ checkIdleStatus
    \/ \E i \in Slots : SettleStatus(i)
    \/ \E i \in Slots : SettleDiff(i)
    \/ \E i \in Slots : SettleFilter(i)
    \/ \E i \in Slots : SettleAdd(i)
    \/ \E i \in Slots : SettleCommit(i)
    \/ \E i \in Slots : StartNext(i)
    \/ \E path \in Paths : WorkTreeChange(path)

\* every suspended collaborator call settles and every continuation runs
FairSpec ==
    /\ Init /\ [][FairNext]_vars
    /\ \A i \in Slots :
          /\ WF_vars(SettleStatus(i))
          /\ WF_vars(SettleDiff(i))
          /\ WF_vars(SettleFilter(i))
          /\ WF_vars(SettleAdd(i))
          /\ WF_vars(SettleCommit(i))
          /\ WF_vars(StartNext(i))

TypeOK ==
    /\ commitInProgress \in BOOLEAN
    /\ currentStatus.state \in {"idle", "committing", "error"}
    /\ settings \in SettingsDomain
    /\ worktree \subseteq Paths
    /\ now \in 1..MaxLifeTime
    /\ lastEditTime \in 1..MaxLifeTime
    /\ debouncePending \subseteq 1..(MaxLifeTime + DebounceDelay)
    /\ changeQueue \subseteq Paths

(* ---------------------------------------------------------------------- *)
(* The plugin from onload to onunload, with its listeners and timers       *)
(* ---------------------------------------------------------------------- *)
\* one configuration: a single commit per invocation, both timers enabled,
\* an idle threshold longer than the debounce delay
LifeSettings ==
    {st \in SettingsDomain : /\ st.commitMode = "batch"
                             /\ st.hiddenFilesHandling = "group"
                             /\ st.maxFilesInCommitMessage = MaxFilesSetting
                             /\ st.enableIntervalCommit
                             /\ st.enableIdleCommit
                             /\ st.idleMinutes = 3}

\* the files that change while the plugin lives
LifePaths == {P_b}

LifeInit == settings \in LifeSettings /\ Constructed

LifeTick == TickTo(MaxLifeTime)

LifeNext ==
    \/ CheckGitInstalled
    \/ IsGitRepo
    \/ InitializeRepo
    \/ InitialAdd
    \/ InitialCommit
    \/ ManualCommit
    \/ IntervalFire
    \/ checkIdleStatus
    \/ \E i \in Slots : SettleStatus(i)
    \/ \E i \in Slots : SettleDiff(i)
    \/ \E i \in Slots : SettleAdd(i)
    \/ \E i \in Slots : SettleCommit(i)
    \/ \E path \in LifePaths : WorkTreeChange(path)
    \/ \E path \in LifePaths : VaultEvent(path)
    \/ DebounceFire
    \/ onunload
    \/ LifeTick

LifeSpec == LifeInit /\ [][LifeNext]_vars

(* ---------------------------------------------------------------------- *)
(* The loaded plugin with its settings tab                                 *)
(* ---------------------------------------------------------------------- *)
\* the settings the plugin is loaded with: the ignore filter, one commit per
\* invocation, both timers enabled
SaveInit ==
    /\ settings \in {st \in SettingsDomain : /\ st.commitMode = "batch"
                                              /\ st.hiddenFilesHandling = "gitignore-only"
                                              /\ st.maxFilesInCommitMessage = MaxFilesSetting
                                              /\ st.enableIntervalCommit
                                              /\ st.enableIdleCommit
                                              /\ st.idleMinutes = 1}
    /\ Constructed

\* commits by hand while the two commit settings are changed in the settings
\* tab and a regular and a hidden file change on disk
SaveNext ==
    \/ CheckGitInstalled
    \/ IsGitRepo
    \/ InitializeRepo
    \/ InitialAdd
    \/ InitialCommit
    \/ ManualCommit
    \/ \E i \in Slots : SettleStatus(i)
    \/ \E i \in Slots : SettleDiff(i)
    \/ \E i \in Slots : SettleFilter(i)
    \/ \E i \in Slots : SettleAdd(i)
    \/ \E i \in Slots : SettleCommit(i)
    \/ \E i \in Slots : StartNext(i)
    \/ \E path \in {P_b, P_sub} : WorkTreeChange(path)
    \/ \E value \in HiddenModes : ChangeSetting("hiddenFilesHandling", value)
    \/ \E value \in CommitModes : ChangeSetting("commitMode", value)
    \/ FinishSave

SaveSpec == SaveInit /\ [][SaveNext]_vars

\* the timers from onload to onunload while the toggles are operated and
\* the clock runs
TimerNext ==
    \/ CheckGitInstalled
    \/ IsGitRepo
    \/ InitializeRepo
    \/ InitialAdd
    \/ InitialCommit
    \/ IntervalFire
    \/ checkIdleStatus
    \/ \E i \in Slots : SettleStatus(i)
    \/ \E i \in Slots : SettleDiff(i)
    \/ \E value \in BOOLEAN : ChangeSetting("enableIntervalCommit", value)
    \/ \E value \in BOOLEAN : ChangeSetting("enableIdleCommit", value)
    \/ FinishSave
    \/ onunload
    \/ LifeTick

TimerSpec == LifeInit /\ [][TimerNext]_vars

\* the host's scheduling for the timers: an interval timer that stays set
\* fires when its period has passed, a save that was started finishes, and
\* the git calls of a commit settle; a timer that is cleared before its
\* period has passed never fires
TimerFairSpec ==
    /\ LifeInit /\ [][TimerNext]_vars
    /\ \A id \in 0..1 : WF_vars(IntervalFire /\ intervalTimer.handle = id)
    /\ WF_vars(FinishSave)
    /\ \A i \in Slots :
          /\ WF_vars(SettleStatus(i))
          /\ WF_vars(SettleDiff(i))

(* ---------------------------------------------------------------------- *)
(* The builders and the filter on arbitrary file lists                     *)
(* ---------------------------------------------------------------------- *)
P_dot == <<46, 97>>

BuilderPaths == {P_B, P_b, P_dot, P_sub}

BuilderStats ==
    {FileDiffStat(p, c[1], c[2]) : p \in BuilderPaths, c \in {<<0, 0>>, <<1, 3>>}}
    \cup {FileDiffStat(P_dot, 3, 1)}

\* the file lists of up to MaxLen entries, repeated paths included
StatLists == UNION {[1..n -> BuilderStats] : n \in 0..MaxLen}

\* a call of a pure function with its arguments and its return value
PureCall(op, files, maxFiles, result, after) ==
    [op |-> op, files |-> files, maxFiles |-> maxFiles, result |-> result,
     after |-> after]

\* the caller's array after [...files].sort(...): the copy was sorted
ArrayAfterSort(files) == files

\* the caller's array after a for-of loop or a filter over it
ArrayAfterRead(files) == files

\* the plugin as constructed: one call is made on it
FreshPlugin == lastCall = NoCall

PureFrame ==
    /\ settled' = InvNone
    /\ UNCHANGED <<phase, settings, savePending, commitInProgress, currentStatus,
                   lastEditTime, changeQueue, changeTimeout, debouncePending,
                   intervalTimer, idleCheckTimer, now, worktree, inv, unguardedDiffs>>

\* buildCommitMessage({ files, maxFiles })
CallBuildCommitMessage ==
    /\ FreshPlugin
    /\ \E files \in StatLists, maxFiles \in 1..MaxFilesSetting :
          lastCall' = PureCall("buildCommitMessage", files, maxFiles,
                               buildCommitMessage(files, maxFiles),
                               ArrayAfterSort(files))
    /\ PureFrame

\* lists longer than the default maxFiles, of two files
LongStats == {FileDiffStat(P_b, 0, 0), FileDiffStat(P_B, 1, 3)}
LongLists == [1..(DefaultMaxFiles + 1) -> LongStats]

\* buildCommitMessage({ files }): maxFiles is omitted
CallBuildCommitMessageDefault ==
    /\ FreshPlugin
    /\ \E files \in StatLists \cup LongLists :
          lastCall' = PureCall("buildCommitMessageDefault", files, Null,
                               buildCommitMessage(files, MaxFilesOption(Null)),
                               ArrayAfterSort(files))
    /\ PureFrame

\* buildSingleFileCommitMessage(stat)
CallBuildSingleFileCommitMessage ==
    /\ FreshPlugin
    /\ \E stat \in BuilderStats :
          lastCall' = PureCall("buildSingleFileCommitMessage", <<stat>>, Null,
                               buildSingleFileCommitMessage(stat),
                               <<stat>>)
    /\ PureFrame

\* buildHiddenFilesCommitMessage(files)
CallBuildHiddenFilesCommitMessage ==
    /\ FreshPlugin
    /\ \E files \in StatLists \cup LongLists :
          lastCall' = PureCall("buildHiddenFilesCommitMessage", files, Null,
                               buildHiddenFilesCommitMessage(files),
                               ArrayAfterSort(files))
    /\ PureFrame

\* categorizeFiles(files)
CallCategorizeFiles ==
    /\ FreshPlugin
    /\ \E files \in StatLists :
          lastCall' = PureCall("categorizeFiles", files, Null,
                               categorizeFiles(files),
                               ArrayAfterRead(files))
    /\ PureFrame

\* the columns git diff --numstat prints for a text file
NumstatColumns == {<<48>>, <<51>>, <<49, 50>>}

\* the lines git diff --numstat HEAD can print for the tracked files
NumstatSamples ==
    {[addStr |-> c[1], delStr |-> c[2], path |-> p] :
        c \in (NumstatColumns \X NumstatColumns) \cup {<<(<<Dash>>), (<<Dash>>)>>},
        p \in {P_B, P_sub}}

\* what git answers to one getDiffStats: status.tracking (the upstream
\* branch is set), the numstat lines of the tracked files that are modified
\* or deleted, and status.not_added
GitAnswers ==
    [lines : UNION {[1..n -> NumstatSamples] : n \in 0..MaxLines},
     notAdded : {<<>>, <<P_b>>},
     tracking : BOOLEAN]

\* getDiffStats() against the given answers of git
getDiffStats(git) ==
    IF ~git.tracking THEN DiffStatsNoTracking(git.notAdded)
    ELSE DiffStatsTracked(git.lines, git.notAdded)

\* getDiffStats() on a repository that gives these answers
CallGetDiffStats ==
    /\ FreshPlugin
    /\ \E git \in GitAnswers :
          lastCall' = PureCall("getDiffStats", <<git>>, Null, getDiffStats(git), <<git>>)
    /\ PureFrame

\* filterFilesBySettings(stats) in the modes that do not ask the collaborator
CallFilterFilesBySettings ==
    /\ FreshPlugin
    /\ settings.hiddenFilesHandling # "gitignore-only"
    /\ \E stats \in StatLists :
          lastCall' = PureCall("filterFilesBySettings", stats, 0,
                               filterFilesBySettings(stats, settings.hiddenFilesHandling),
                               ArrayAfterRead(stats))
    /\ PureFrame

BuilderNext ==
    \/ CallBuildCommitMessage
    \/ CallBuildCommitMessageDefault
    \/ CallBuildSingleFileCommitMessage
    \/ CallBuildHiddenFilesCommitMessage
    \/ CallCategorizeFiles
    \/ CallGetDiffStats
    \/ CallFilterFilesBySettings

\* the commit mode plays no part in the builders and the filter, and in
\* gitignore-only mode the filter is the collaborator's
BuilderInit ==
    /\ Init
    /\ settings.commitMode = "batch"
    /\ settings.hiddenFilesHandling # "gitignore-only"

BuilderSpec == BuilderInit /\ [][BuilderNext]_vars

\* buildCommitMessage alone, called with every file list and every maxFiles
MessageSpec == BuilderInit /\ [][CallBuildCommitMessage]_vars

(* ---------------------------------------------------------------------- *)
(* Properties                                                              *)
(* ---------------------------------------------------------------------- *)
Active == {i \in Slots : inv[i].pc # "none"}

\* C1: at most one performCommit invocation is between setting the guard and
\* the finally block, the guard is set while it is there, and no call that
\* arrived while the guard was set has called getDiffStats.
C1_MutualExclusion ==
    /\ Cardinality(Active) <= 1
    /\ \A i \in Active : commitInProgress
    /\ unguardedDiffs = 0

\* a manual call arrives while the first commit of the running invocation is
\* suspended in git commit
C1_Witness ==
    /\ lastCall.op = "performCommit"
    /\ lastCall.trigger = "manual"
    /\ ~lastCall.accepted
    /\ \E i \in Slots : inv[i].pc = "commit"

\* C2: an invocation that set the guard ends with the guard released, on
\* every path, and the guard is never set without a running invocation.
C2_GuardRelease ==
    /\ [](settled.pc = "done" => ~commitInProgress)
    /\ [](commitInProgress => Active # {})
    /\ (commitInProgress ~> ~commitInProgress)

\* the second commit of an invocation has failed and the guard is released
C2_Witness ==
    /\ settled.pc = "done"
    /\ settled.outcome = "failed"
    /\ Len(settled.calls) = 2
    /\ ~commitInProgress

\* C3: a call that arrives while the guard is set changes nothing, starts no
\* invocation then or when the running one ends, and surfaces the notice
\* 'Commit already in progress' exactly when it is manual.
C3_RejectedCall ==
    /\ [](unguardedDiffs = 0)
    /\ [][(lastCall'.op = "performCommit" /\ commitInProgress) =>
             /\ UNCHANGED <<commitInProgress, currentStatus, lastEditTime, changeQueue,
                            changeTimeout, debouncePending, intervalTimer,
                            idleCheckTimer, inv, worktree, settings, phase>>
             /\ settled' = InvNone
             /\ lastCall'.notice =
                    IF lastCall'.trigger = "manual" THEN N_inProgress ELSE NoNotice]_vars
    /\ [][settled'.pc = "done" => \A i \in Slots : inv'[i].pc = "none"]_vars

\* an interval call has been rejected without a notice
C3_Witness ==
    /\ lastCall.op = "performCommit"
    /\ lastCall.trigger = "interval"
    /\ ~lastCall.accepted
    /\ lastCall.notice = NoNotice
    /\ commitInProgress

\* the invocations that are running or have just ended
Records == {inv[i] : i \in Active} \cup (IF settled.pc = "done" THEN {settled} ELSE {})

Edge == <<currentStatus.state, currentStatus'.state>>

\* the attempt that is suspended in its staging or commit step
PendingAttempt(i) ==
    /\ inv[i].pc \in {"add", "commit"}
    /\ inv[i].calls[Len(inv[i].calls)].result = "pending"

\* the record of invocation i after the step
After(i) == IF inv'[i].pc = "none" THEN settled' ELSE inv'[i]

\* C4 as stated: the status changes only along idle -> committing,
\* committing -> idle, committing -> error and error -> idle.
C4_Original ==
    [][currentStatus'.state # currentStatus.state =>
          Edge \in {<<"idle", "committing">>, <<"committing", "idle">>,
                    <<"committing", "error">>, <<"error", "idle">>}]_vars

\* C4 amended: the status starts idle and changes only along
\* idle -> committing and error -> committing when a stage+commit attempt
\* starts, committing -> idle when that attempt succeeds,
\* committing -> error when it fails, and idle -> error when the ignore
\* filter fails; there is no edge error -> idle.
C4_StatusMachine ==
    /\ currentStatus.state = "idle"
    /\ [][currentStatus'.state # currentStatus.state =>
             Edge \in {<<"idle", "committing">>, <<"error", "committing">>,
                       <<"committing", "idle">>, <<"committing", "error">>,
                       <<"idle", "error">>}]_vars
    /\ [][Edge = <<"idle", "error">> =>
             \E i \in Slots : inv[i].pc = "filter" /\ settled'.outcome = "failed"]_vars
    /\ [][(currentStatus.state # "committing" /\ currentStatus'.state = "committing") =>
             \/ phase = "initRepo" /\ phase' = "initAdd"
             \/ \E i \in Slots :
                   /\ inv'[i].pc = "add"
                   /\ Len(inv'[i].calls) = Len(inv[i].calls) + 1]_vars
    /\ [][(currentStatus.state = "committing" /\ currentStatus'.state # "committing") =>
             \/ phase \in {"initAdd", "initCommit"} /\ phase' = "loaded"
             \/ \E i \in Slots :
                   /\ PendingAttempt(i)
                   /\ After(i).calls[Len(inv[i].calls)].result =
                          IF currentStatus'.state = "idle" THEN "ok" ELSE "failed"]_vars

\* a commit attempt has started while the status was error
C4_Witness ==
    /\ currentStatus.state = "committing"
    /\ \E i \in Slots : inv[i].entryState = "error" /\ inv[i].pc = "add"

\* C5: when an accepted performCommit ends in a failure, whatever the stage,
\* the status is error and a notice has been surfaced.
C5_FailureSetsError ==
    (settled.pc = "done" /\ settled.outcome = "failed") =>
        /\ currentStatus.state = "error"
        /\ settled.notice # NoNotice

CountNotices ==
    {"Committed n file(s)", "Committed n file(s) in m commit(s)",
     "Created m commit(s) for n file(s)"}

\* C6: when an accepted performCommit ends in success, the status is idle,
\* lastCommitTime is set, lastCommitMessage is the message of its last
\* stage+commit call, and a count notice is surfaced iff it was manual.
C6_Success ==
    (settled.pc = "done" /\ settled.outcome = "ok") =>
        /\ Len(settled.calls) >= 1
        /\ currentStatus.state = "idle"
        /\ currentStatus.lastCommitTime # Null
        /\ currentStatus.lastCommitMessage = settled.calls[Len(settled.calls)].message
        /\ (settled.notice # NoNotice) <=> (settled.trigger = "manual")
        /\ settled.trigger = "manual" => settled.notice.text \in CountNotices

\* an interval invocation entered with the status error has made two commits
C6_Witness ==
    /\ settled.pc = "done"
    /\ settled.outcome = "ok"
    /\ settled.entryState = "error"
    /\ settled.trigger = "interval"
    /\ Len(settled.calls) = 2

\* C7: with an empty filtered set performCommit makes no stage+commit call,
\* leaves the status as it was, surfaces 'No changes to commit' iff it was
\* manual, and releases the guard.
C7_EmptySet ==
    /\ [](settled.outcome = "empty" =>
             /\ settled.calls = <<>>
             /\ settled.notice =
                    IF settled.trigger = "manual" THEN N_noChanges ELSE NoNotice
             /\ ~commitInProgress
             /\ currentStatus.state = settled.entryState)
    /\ [][(\E i \in Slots : inv[i].pc \in {"status", "diff", "filter"}
                            /\ \/ After(i).pc \in {"status", "diff", "filter"}
                               \/ After(i).outcome = "empty") =>
             currentStatus' = currentStatus]_vars

\* a manual invocation entered with the status error has found nothing
C7_Witness ==
    /\ settled.outcome = "empty"
    /\ settled.trigger = "manual"
    /\ settled.entryState = "error"
    /\ currentStatus.state = "error"

\* the invocations that have been routed to a commit strategy
Routed(commitMode, separate) ==
    {r \in Records : /\ Len(r.calls) >= 1
                     /\ r.mode.commitMode = commitMode
                     /\ r.mode.separate = separate}

\* the two arguments of a stage+commit call
Args(call) == [paths |-> call.paths, message |-> call.message]

\* the calls the separate batch is to make for the filtered set: the regular
\* files first, the hidden files second, each only if there are any
SeparateBatchArgs(stats) ==
    LET cat == categorizeFiles(stats)
    IN (IF Len(cat.regular) > 0
        THEN <<[paths |-> PathsOf(cat.regular),
                message |-> buildCommitMessage(cat.regular,
                                               settings.maxFilesInCommitMessage)]>>
        ELSE <<>>)
       \o (IF Len(cat.hidden) > 0
           THEN <<[paths |-> PathsOf(cat.hidden),
                   message |-> buildHiddenFilesCommitMessage(cat.hidden)]>>
           ELSE <<>>)

\* C8 as stated: a separate batch over a non-empty filtered set always ends
\* with (1 if regular) + (1 if hidden) stage+commit calls.
C8_Original ==
    (/\ settled.pc = "done"
     /\ Len(settled.calls) >= 1
     /\ settled.mode = [commitMode |-> "batch", separate |-> TRUE]
     /\ Len(settled.stats) > 0) =>
        Len(settled.calls) = Len(SeparateBatchArgs(settled.stats))

\* C8 amended: a separate batch makes its calls in the order regular, hidden,
\* each with exactly the paths of its category and the message built from
\* them, a call starting only after the one before it has succeeded; the
\* number of calls is at most (1 if regular) + (1 if hidden) and equals it
\* when no stage+commit call fails; every path is in exactly one planned call.
C8_SeparateBatch ==
    \A r \in Routed("batch", TRUE) :
        LET expected == SeparateBatchArgs(r.stats)
        IN /\ Len(expected) \in 1..2
           /\ Len(r.calls) <= Len(expected)
           /\ \A k \in 1..Len(r.calls) :
                 /\ r.calls[k].api = "stageAndCommitFiles"
                 /\ Args(r.calls[k]) = expected[k]
                 /\ k < Len(r.calls) => r.calls[k].result = "ok"
           /\ (r.pc = "done" /\ \A k \in 1..Len(r.calls) : r.calls[k].result # "failed")
                 => Len(r.calls) = Len(expected)
           /\ r.outcome = "ok" =>
                 /\ Len(r.calls) = Len(expected)
                 /\ \A k \in 1..Len(r.calls) : r.calls[k].result = "ok"
           /\ \A j \in 1..Len(r.stats) :
                 Cardinality({k \in 1..Len(expected) :
                                 r.stats[j].path \in SeqToSet(expected[k].paths)}) = 1

\* a separate batch over two regular files and a hidden one has made both
\* of its commits
C8_Witness ==
    /\ settled.pc = "done"
    /\ settled.outcome = "ok"
    /\ settled.mode = [commitMode |-> "batch", separate |-> TRUE]
    /\ Len(settled.stats) = 3
    /\ Len(settled.calls) = 2

\* C9: a batch with hidden-files handling 'group' makes exactly one
\* stage+commit call, with buildCommitMessage over the whole filtered set and
\* the configured maxFiles, and the commit covers every path of the set.
C9_GroupBatch ==
    settings.hiddenFilesHandling = "group" =>
        \A r \in Routed("batch", FALSE) :
            /\ Len(r.stats) > 0
            /\ Len(r.calls) = 1
            /\ r.plan = <<>>
            /\ r.calls[1].api = "stageAndCommit"
            /\ r.calls[1].paths = <<S_dashA>>
            /\ r.calls[1].message =
                   buildCommitMessage(r.stats, settings.maxFilesInCommitMessage)
            /\ r.pc = "commit" => SeqToSet(PathsOf(r.stats)) \subseteq r.staged
            /\ r.outcome = "ok" =>
                   /\ r.calls[1].result = "ok"
                   /\ SeqToSet(PathsOf(r.stats)) \subseteq r.calls[1].committed

\* a group batch has committed three files under a message that names two
C9_Witness ==
    /\ settings.hiddenFilesHandling = "group"
    /\ settled.pc = "done"
    /\ settled.outcome = "ok"
    /\ settled.mode = [commitMode |-> "batch", separate |-> FALSE]
    /\ Len(settled.stats) = 3
    /\ settings.maxFilesInCommitMessage = 2
    /\ Cardinality(settled.calls[1].committed) = 3

\* C10: in individual mode with hidden-files handling 'group' the k-th call
\* stages only the path of the k-th file with the single-file message of that
\* file, a call starts only after the one before it has succeeded, and when
\* no step fails there is exactly one commit per file.
C10_IndividualGroup ==
    settings.hiddenFilesHandling = "group" =>
        \A r \in Routed("individual", FALSE) :
            /\ Len(r.calls) <= Len(r.stats)
            /\ r.pc # "done" => Len(r.calls) + Len(r.plan) = Len(r.stats)
            /\ \A k \in 1..Len(r.calls) :
                  /\ r.calls[k].api = "stageAndCommitFiles"
                  /\ r.calls[k].paths = <<r.stats[k].path>>
                  /\ r.calls[k].message = buildSingleFileCommitMessage(r.stats[k])
                  /\ k < Len(r.calls) => r.calls[k].result = "ok"
            /\ r.outcome = "ok" =>
                  /\ Len(r.calls) = Len(r.stats)
                  /\ \A k \in 1..Len(r.calls) : r.calls[k].result = "ok"

\* three files have got one commit each
C10_Witness ==
    /\ settings.hiddenFilesHandling = "group"
    /\ settled.pc = "done"
    /\ settled.outcome = "ok"
    /\ settled.mode = [commitMode |-> "individual", separate |-> FALSE]
    /\ Len(settled.calls) = 3

\* the calls the separate individual run is to make for the filtered set: one
\* per regular file in list order, then one for all the hidden files
SeparateIndividualArgs(stats) ==
    LET cat == categorizeFiles(stats)
    IN [k \in 1..Len(cat.regular) |->
           [paths |-> <<cat.regular[k].path>>,
            message |-> buildSingleFileCommitMessage(cat.regular[k])]]
       \o (IF Len(cat.hidden) > 0
           THEN <<[paths |-> PathsOf(cat.hidden),
                   message |-> buildHiddenFilesCommitMessage(cat.hidden)]>>
           ELSE <<>>)

\* C11: in individual mode with hidden-files handling 'separate' every
\* regular file gets its own call with its single-file message, the hidden
\* files get one call with the hidden-files message after all the regular
\* ones, a call starts only after the one before it has succeeded, and when
\* no step fails the number of commits is |regular| + (1 if hidden).
C11_IndividualSeparate ==
    \A r \in Routed("individual", TRUE) :
        LET expected == SeparateIndividualArgs(r.stats)
            cat == categorizeFiles(r.stats)
        IN /\ Len(expected) =
                  Len(cat.regular) + (IF Len(cat.hidden) > 0 THEN 1 ELSE 0)
           /\ Len(r.calls) <= Len(expected)
           /\ r.pc # "done" => Len(r.calls) + Len(r.plan) = Len(expected)
           /\ \A k \in 1..Len(r.calls) :
                 /\ r.calls[k].api = "stageAndCommitFiles"
                 /\ Args(r.calls[k]) = expected[k]
                 /\ k < Len(r.calls) => r.calls[k].result = "ok"
           /\ r.outcome = "ok" =>
                 /\ Len(r.calls) = Len(expected)
                 /\ \A k \in 1..Len(r.calls) : r.calls[k].result = "ok"

\* two regular files and a hidden one have been committed in three commits,
\* the hidden one last
C11_Witness ==
    /\ settled.pc = "done"
    /\ settled.outcome = "ok"
    /\ settled.mode = [commitMode |-> "individual", separate |-> TRUE]
    /\ Len(categorizeFiles(settled.stats).regular) = 2
    /\ Len(categorizeFiles(settled.stats).hidden) = 1
    /\ Len(settled.calls) = 3
    /\ settled.calls[3].message =
           buildHiddenFilesCommitMessage(categorizeFiles(settled.stats).hidden)

\* some '/'-delimited segment of the path begins with '.'
HasDotSegment(path) ==
    /\ Len(path) > 0
    /\ \/ path[1] = Dot
       \/ \E i \in 1..(Len(path) - 1) : path[i] = Slash /\ path[i + 1] = Dot

\* C12: with hidden-files handling 'never' the filter returns exactly the
\* stats whose path has no segment starting with '.', in input order, and
\* agrees with categorizeFiles; with 'group' or 'separate' it returns its
\* input unchanged.
C12_NeverFilter ==
    lastCall.op = "filterFilesBySettings" =>
        IF settings.hiddenFilesHandling = "never"
        THEN /\ lastCall.result =
                    SelectSeq(lastCall.files, LAMBDA stat : ~HasDotSegment(stat.path))
             /\ categorizeFiles(lastCall.result).hidden = <<>>
             /\ categorizeFiles(lastCall.result).regular =
                    categorizeFiles(lastCall.files).regular
        ELSE lastCall.result = lastCall.files

\* the filter has dropped a nested hidden path from between two regular ones
C12_Witness ==
    /\ lastCall.op = "filterFilesBySettings"
    /\ settings.hiddenFilesHandling = "never"
    /\ Len(lastCall.files) = 3
    /\ lastCall.files[2].path = P_sub
    /\ Len(lastCall.result) = 2
    /\ lastCall.result[1] = lastCall.files[1]
    /\ lastCall.result[2] = lastCall.files[3]

\* C13: once git has been reported unavailable the plugin stays disabled:
\* no listener, timer or command is registered, no performCommit starts and
\* no collaborator call is made, whatever happens to the vault and the clock.
C13_Disabled ==
    /\ [](phase = "disabled" =>
             /\ Active = {}
             /\ ~commitInProgress
             /\ ~TimerActive(intervalTimer)
             /\ ~TimerActive(idleCheckTimer)
             /\ debouncePending = {}
             /\ changeQueue = {}
             /\ currentStatus = InitialStatus
             /\ lastCall = NoCall)
    /\ [][phase = "disabled" =>
             /\ phase' = "disabled"
             /\ UNCHANGED <<inv, commitInProgress, currentStatus, lastEditTime,
                            changeQueue, changeTimeout, debouncePending,
                            intervalTimer, idleCheckTimer>>]_vars

\* the plugin is disabled, a file has changed and the clock has run out
C13_Witness ==
    /\ phase = "disabled"
    /\ worktree # {}
    /\ now = MaxLifeTime

\* a debounce timeout runs its callback in this step
DebounceFires == debouncePending' \subseteq debouncePending /\ debouncePending' # debouncePending

\* C14: at most one debounce timeout is pending, it is the one scheduled by
\* the most recent queueFileChange and it is due 2 units after that call;
\* while changes are queued a timeout is pending; the callback runs only
\* when those 2 units have passed with no call in between, and it leaves no
\* timeout pending, so a burst gives one lastEditTime update after its end.
C14_Debounce ==
    /\ [](/\ Cardinality(debouncePending) <= 1
          /\ debouncePending \subseteq {changeTimeout}
          /\ changeQueue # {} => debouncePending # {})
    /\ [][changeTimeout' # changeTimeout =>
             /\ changeTimeout' = now + DebounceDelay
             /\ debouncePending' = {changeTimeout'}
             /\ lastEditTime' = lastEditTime]_vars
    /\ [][lastEditTime' # lastEditTime => DebounceFires]_vars
    /\ [][DebounceFires =>
             /\ now >= changeTimeout
             /\ changeTimeout' = changeTimeout
             /\ lastEditTime' = now
             /\ changeQueue' = {}
             /\ debouncePending' = {}]_vars

\* a burst of calls, the last of them at time 2, has been followed by one
\* update at time 4
C14_Witness ==
    /\ changeTimeout = 2 + DebounceDelay
    /\ lastEditTime = 2 + DebounceDelay
    /\ now = lastEditTime
    /\ changeQueue = {}
    /\ debouncePending = {}

\* the time of the most recent queueFileChange call, Null if there was none
LastQueueTime == IF changeTimeout = Null THEN Null ELSE changeTimeout - DebounceDelay

\* C15: whenever checkIdleStatus starts performCommit('idle') no commit is in
\* progress and no queueFileChange call has been made during the preceding
\* idleMinutes.
C15_QuietPeriod ==
    [][(lastCall'.op = "performCommit" /\ lastCall'.trigger = "idle") =>
          /\ ~commitInProgress
          /\ LastQueueTime = Null \/ now - LastQueueTime >= IdleMs]_vars

\* C16: after onunload the interval timer, the idle-poll timer and the
\* debounce timeout are all cancelled, so no performCommit starts afterwards
\* and lastEditTime is not written; an invocation in flight may still end.
C16_ShutdownCancels ==
    /\ [](phase = "unloaded" =>
             /\ ~TimerActive(intervalTimer)
             /\ ~TimerActive(idleCheckTimer)
             /\ debouncePending = {})
    /\ [][phase = "unloaded" =>
             /\ lastCall'.op # "performCommit"
             /\ lastEditTime' = lastEditTime
             /\ changeQueue' = changeQueue]_vars

\* C17: a failure raised by the collaborator at any stage is handled inside
\* the invocation: performCommit ends normally, with the failure announced
\* and the guard released, and nothing is thrown on to its caller.
C17_Containment ==
    settled.pc = "done" =>
        /\ ~settled.rejects
        /\ settled.outcome = "failed" =>
              /\ settled.error \in Errors
              /\ settled.notice # NoNotice
              /\ ~commitInProgress
              /\ \A i \in Slots : inv[i].pc = "none"

\* the timer-started invocation has ended on a failure of its second commit
C17_Witness ==
    /\ settled.pc = "done"
    /\ settled.outcome = "failed"
    /\ settled.trigger = "interval"
    /\ Len(settled.calls) = 2
    /\ settled.calls[2].result = "failed"
    /\ ~settled.rejects

\* C18: the notice of a failed invocation is the repository notice if the
\* message contains 'not a git repository', else the permission notice if it
\* contains 'permission denied', else 'Commit failed: ' with the raw message;
\* it is the one notice of the invocation.
C18_Classification ==
    (settled.pc = "done" /\ settled.outcome = "failed") =>
        LET msg == settled.error
            expected ==
                CASE Includes(msg, "not a git repository") -> N_notInit
                  [] /\ ~Includes(msg, "not a git repository")
                     /\ Includes(msg, "permission denied") -> N_permission
                  [] OTHER -> Notice("Commit failed: ", 0, 0, msg)
        IN /\ settled.notice = expected
           /\ settled.notices = <<expected>>

\* a message with both fragments has got the repository notice
C18_Witness ==
    /\ settled.pc = "done"
    /\ settled.outcome = "failed"
    /\ settled.error = E_both
    /\ settled.notice = N_notInit

\* the paths the commits of an invocation have recorded
Recorded(r) == UNION {r.calls[k].committed : k \in 1..Len(r.calls)}

\* C19: a failed collaborator step ends its invocation: the failed call is
\* the last one made, the calls before it succeeded, the files not yet
\* committed stay in the working tree, nothing of the invocation is left to
\* run, and an invocation starts only in the step of a trigger, with the diff
\* query and nothing carried over.
C19_NoRetry ==
    /\ [](\A r \in Records : \A k \in 1..Len(r.calls) :
             /\ r.calls[k].result = "failed" =>
                   /\ k = Len(r.calls)
                   /\ r.pc = "done"
                   /\ r.outcome = "failed"
                   /\ r.calls[k].committed = {}
             /\ k < Len(r.calls) => r.calls[k].result = "ok")
    /\ []((settled.pc = "done" /\ settled.outcome = "failed") =>
             /\ \A i \in Slots : inv[i] = InvNone
             /\ settled.plan = <<>>
             /\ (SeqToSet(PathsOf(settled.stats)) \ Recorded(settled)) \subseteq worktree)
    /\ [][\A i \in Slots : (inv[i].pc = "none" /\ inv'[i].pc # "none") =>
             /\ lastCall'.op = "performCommit"
             /\ lastCall'.accepted
             /\ lastCall'.trigger \in Triggers
             /\ inv'[i] = [InvNone EXCEPT !.pc = "status",
                                          !.trigger = lastCall'.trigger,
                                          !.entryState = currentStatus.state]]_vars

\* the second of three single-file commits has failed: the first is
\* recorded, the other two files are still changed
C19_Witness ==
    /\ settled.pc = "done"
    /\ settled.outcome = "failed"
    /\ Len(settled.stats) = 3
    /\ Len(settled.calls) = 2
    /\ settled.calls[1].result = "ok"
    /\ settled.calls[2].result = "failed"
    /\ {settled.stats[2].path, settled.stats[3].path} \subseteq worktree

\* the orders in which n files can be listed
Orders(n) == {f \in [1..n -> 1..n] : \A i, j \in 1..n : f[i] = f[j] => i = j}

\* the message that lists the files in the given order and shows k of them
MessageOf(order, files, k) ==
    LET n == Len(files)
        names == [i \in 1..n |-> formatFileName(files[order[i]])]
    IN S_choreUpdate
       \o (IF n <= k THEN Join(names, S_commaSpace)
           ELSE Join(SubSeq(names, 1, k), S_commaSpace)
                \o S_and \o NumToString(n - k) \o S_more)

\* the number of files a message for n files shows
ShownCount(n, k) == IF n <= k THEN n ELSE k

\* comparison of two paths by code point
CodePointCompare(a, b) == LexCompare(a, b)

\* no path occurs twice in the list
DistinctPaths(files) ==
    \A i, j \in 1..Len(files) : files[i].path = files[j].path => i = j

\* C20 as stated, already for lists of distinct paths: the shown paths are in
\* strict ascending code-point order.
C20_Original ==
    (/\ lastCall.op = "buildCommitMessage"
     /\ Len(lastCall.files) > 0
     /\ DistinctPaths(lastCall.files)) =>
        \E order \in Orders(Len(lastCall.files)) :
            /\ lastCall.result = MessageOf(order, lastCall.files, lastCall.maxFiles)
            /\ \A i \in 1..(ShownCount(Len(lastCall.files), lastCall.maxFiles) - 1) :
                  CodePointCompare(lastCall.files[order[i]].path,
                                   lastCall.files[order[i + 1]].path) < 0

\* C20 amended: the message starts with 'chore: update ' and lists the shown
\* paths in ascending order of localeCompare, entries with equal paths in
\* input order, whatever the input order.
C20_LocaleOrder ==
    (lastCall.op = "buildCommitMessage" /\ Len(lastCall.files) > 0) =>
        /\ SubSeq(lastCall.result, 1, Len(S_choreUpdate)) = S_choreUpdate
        /\ \E order \in Orders(Len(lastCall.files)) :
              /\ lastCall.result = MessageOf(order, lastCall.files, lastCall.maxFiles)
              /\ \A i \in 1..(ShownCount(Len(lastCall.files), lastCall.maxFiles) - 1) :
                    LET c == localeCompare(lastCall.files[order[i]].path,
                                           lastCall.files[order[i + 1]].path)
                    IN c < 0 \/ (c = 0 /\ order[i] < order[i + 1])

\* 'B' given before 'b' is listed after it
C20_Witness ==
    /\ lastCall.op = "buildCommitMessage"
    /\ Len(lastCall.files) = 2
    /\ lastCall.maxFiles = 2
    /\ lastCall.files[1].path = P_B
    /\ lastCall.files[2].path = P_b
    /\ lastCall.files[1].netChange = 0
    /\ lastCall.files[2].netChange = 0
    /\ lastCall.result = S_choreUpdate \o P_b \o S_commaSpace \o P_B

\* C21: with maxFiles = k (5 when maxFiles is omitted) and n files, the file
\* list is all n sorted formatted names joined by ', ' when n <= k, and the
\* first k of them followed by ' and {n-k} more' when n > k.
C21_Truncation ==
    (lastCall.op \in {"buildCommitMessage", "buildCommitMessageDefault"}
     /\ Len(lastCall.files) > 0) =>
        LET k == IF lastCall.op = "buildCommitMessageDefault" THEN 5
                 ELSE lastCall.maxFiles
            n == Len(lastCall.files)
            names == FormatAll(SortByPath(lastCall.files))
        IN lastCall.result =
               S_choreUpdate
               \o (IF n <= k THEN Join(names, S_commaSpace)
                   ELSE Join(SubSeq(names, 1, k), S_commaSpace)
                        \o S_and \o NumToString(n - k) \o S_more)

\* six files without maxFiles: five names and ' and 1 more'
C21_Witness ==
    /\ lastCall.op = "buildCommitMessageDefault"
    /\ Len(lastCall.files) = 6
    /\ \A i \in 1..6 : lastCall.files[i] = FileDiffStat(P_b, 0, 0)
    /\ lastCall.result =
           S_choreUpdate \o P_b \o S_commaSpace \o P_b \o S_commaSpace \o P_b
           \o S_commaSpace \o P_b \o S_commaSpace \o P_b \o S_and \o <<49>> \o S_more

\* the name C22 gives a file: the path, followed by ' [DELETES]' exactly when
\* netChange is negative
MarkedName(stat) ==
    IF stat.netChange < 0 THEN stat.path \o <<32, 91, 68, 69, 76, 69, 84, 69, 83, 93>>
    ELSE stat.path

\* the names of the files taken in the given order
MarkedNames(order, files) == [i \in 1..Len(files) |-> MarkedName(files[order[i]])]

\* C22: in the batch, single-file and hidden-files messages a file is named
\* path + ' [DELETES]' if and only if its netChange < 0, and by its bare path
\* when netChange is 0 or positive.
C22_DeletesMarker ==
    /\ (lastCall.op = "buildCommitMessage" /\ Len(lastCall.files) > 0) =>
           \E order \in Orders(Len(lastCall.files)) :
               LET names == MarkedNames(order, lastCall.files)
                   n == Len(lastCall.files)
                   k == lastCall.maxFiles
               IN lastCall.result =
                      S_choreUpdate
                      \o (IF n <= k THEN Join(names, S_commaSpace)
                          ELSE Join(SubSeq(names, 1, k), S_commaSpace)
                               \o S_and \o NumToString(n - k) \o S_more)
    /\ lastCall.op = "buildSingleFileCommitMessage" =>
           lastCall.result = S_choreUpdate \o MarkedName(lastCall.files[1])
    /\ (lastCall.op = "buildHiddenFilesCommitMessage" /\ Len(lastCall.files) > 0) =>
           \E order \in Orders(Len(lastCall.files)) :
               lastCall.result =
                   S_choreUpdate \o S_hiddenFiles \o S_openParen
                   \o Join(MarkedNames(order, lastCall.files), S_commaSpace)
                   \o S_closeParen

\* a hidden-files message that names a file with net deletions, one without
\* net change and one with net additions
C22_Witness ==
    /\ lastCall.op = "buildHiddenFilesCommitMessage"
    /\ lastCall.files = <<FileDiffStat(P_sub, 1, 3), FileDiffStat(P_dot, 0, 0),
                          FileDiffStat(P_dot, 3, 1)>>
    /\ lastCall.result =
           S_choreUpdate \o S_hiddenFiles \o S_openParen
           \o P_dot \o S_commaSpace \o P_dot \o S_commaSpace
           \o P_sub \o S_deletes \o S_closeParen

\* the list with its entries taken in the given order
Permuted(files, order) == [i \in 1..Len(files) |-> files[order[i]]]

\* the order swaps no two entries of one path that are named differently
KeepsMarkedOrder(files, order) ==
    \A i, j \in 1..Len(files) :
        (/\ i < j
         /\ files[order[i]].path = files[order[j]].path
         /\ (files[order[i]].netChange < 0) # (files[order[j]].netChange < 0))
            => order[i] < order[j]

\* C23 as stated: every permutation of the file list gives the same message
\* as the list itself, which the call leaves unmodified.
C23_Original ==
    lastCall.op = "buildCommitMessage" =>
        /\ \A order \in Orders(Len(lastCall.files)) :
               buildCommitMessage(Permuted(lastCall.files, order), lastCall.maxFiles)
                   = lastCall.result
        /\ lastCall.after = lastCall.files

\* C23 amended: every permutation of the file list that keeps the relative
\* order of entries with the same path and different [DELETES] marking gives
\* the same message as the list itself, a second call on the same list
\* included, and the call leaves the list unmodified.
C23_OrderIndependence ==
    lastCall.op = "buildCommitMessage" =>
        /\ \A order \in Orders(Len(lastCall.files)) :
               KeepsMarkedOrder(lastCall.files, order) =>
                   buildCommitMessage(Permuted(lastCall.files, order), lastCall.maxFiles)
                       = lastCall.result
        /\ lastCall.after = lastCall.files

\* three files given out of order, two of them shown
C23_Witness ==
    /\ lastCall.op = "buildCommitMessage"
    /\ lastCall.maxFiles = 2
    /\ lastCall.files = <<FileDiffStat(P_B, 1, 3), FileDiffStat(P_b, 0, 0),
                          FileDiffStat(P_sub, 0, 0)>>
    /\ lastCall.after = lastCall.files
    /\ lastCall.result =
           S_choreUpdate \o P_sub \o S_commaSpace \o P_b \o S_and \o <<49>> \o S_more

\* the hidden-files message that lists the files in the given order
HiddenMessageOf(order, files) ==
    S_choreUpdate \o S_hiddenFiles \o S_openParen
    \o Join([i \in 1..Len(files) |-> formatFileName(files[order[i]])], S_commaSpace)
    \o S_closeParen

\* in the given order the entries of one path are adjacent and in input order
RepeatsTogether(order, files) ==
    \A i, j \in 1..Len(files) :
        (i < j /\ files[order[i]].path = files[order[j]].path) =>
            /\ order[i] < order[j]
            /\ \A m \in i..j : files[order[m]].path = files[order[i]].path

\* every entry whose path occurs twice is among the first 'shown' of the order
RepeatsShown(order, files, shown) ==
    \A i, j \in 1..Len(files) :
        (i # j /\ files[order[i]].path = files[order[j]].path) => i <= shown

\* the calls of the builders that take a list
ListBuilderCall ==
    lastCall.op \in {"buildCommitMessage", "buildHiddenFilesCommitMessage"}

\* the message of the call for the given order of its files
BuilderMessageOf(order) ==
    IF lastCall.op = "buildCommitMessage"
    THEN MessageOf(order, lastCall.files, lastCall.maxFiles)
    ELSE HiddenMessageOf(order, lastCall.files)

\* the number of names the message of the call shows
BuilderShown ==
    IF lastCall.op = "buildCommitMessage"
    THEN ShownCount(Len(lastCall.files), lastCall.maxFiles)
    ELSE Len(lastCall.files)

\* C24 as stated: the builders return a string for every list, and the
\* entries of a repeated path all appear in it, adjacent and in input order.
C24_Original ==
    ListBuilderCall =>
        /\ Len(lastCall.result) > Len(S_choreUpdate)
        /\ Len(lastCall.files) > 0 =>
               \E order \in Orders(Len(lastCall.files)) :
                   /\ lastCall.result = BuilderMessageOf(order)
                   /\ RepeatsTogether(order, lastCall.files)
                   /\ RepeatsShown(order, lastCall.files, BuilderShown)

\* C24 amended: the builders return a string for every list; the entries of
\* a repeated path are adjacent and in input order in the sorted list the
\* message is made from, of which buildCommitMessage names the first maxFiles
\* and counts the rest.
C24_NoDeduplication ==
    ListBuilderCall =>
        /\ Len(lastCall.result) > Len(S_choreUpdate)
        /\ Len(lastCall.files) > 0 =>
               \E order \in Orders(Len(lastCall.files)) :
                   /\ lastCall.result = BuilderMessageOf(order)
                   /\ RepeatsTogether(order, lastCall.files)

\* a path given twice with another path between: both entries are named,
\* next to each other, the first given first
C24_Witness ==
    /\ lastCall.op = "buildHiddenFilesCommitMessage"
    /\ lastCall.files = <<FileDiffStat(P_sub, 0, 0), FileDiffStat(P_dot, 1, 3),
                          FileDiffStat(P_sub, 1, 3)>>
    /\ lastCall.result =
           S_choreUpdate \o S_hiddenFiles \o S_openParen
           \o P_dot \o S_deletes \o S_commaSpace \o P_sub \o S_commaSpace
           \o P_sub \o S_deletes \o S_closeParen

\* 'chore: update files'
ChoreUpdateFiles ==
    <<99, 104, 111, 114, 101, 58, 32, 117, 112, 100, 97, 116, 101, 32,
      102, 105, 108, 101, 115>>

\* C25: buildCommitMessage on an empty file list returns exactly
\* 'chore: update files', whatever maxFiles is and also when it is omitted.
C25_EmptyList ==
    (lastCall.op \in {"buildCommitMessage", "buildCommitMessageDefault"}
     /\ Len(lastCall.files) = 0) =>
        lastCall.result = ChoreUpdateFiles

\* the call on the empty list with maxFiles = 1
C25_Witness ==
    /\ lastCall.op = "buildCommitMessage"
    /\ lastCall.files = <<>>
    /\ lastCall.maxFiles = 1
    /\ lastCall.result = ChoreUpdateFiles

\* 'chore: update hidden files'
ChoreUpdateHiddenFiles ==
    <<99, 104, 111, 114, 101, 58, 32, 117, 112, 100, 97, 116, 101, 32,
      104, 105, 100, 100, 101, 110, 32, 102, 105, 108, 101, 115>>

\* the order lists the files by ascending path, equal paths in input order
SortedOrder(order, files) ==
    \A i \in 1..(Len(files) - 1) :
        LET c == localeCompare(files[order[i]].path, files[order[i + 1]].path)
        IN c < 0 \/ (c = 0 /\ order[i] < order[i + 1])

\* C26: buildHiddenFilesCommitMessage returns 'chore: update hidden files'
\* for the empty list and otherwise 'chore: update hidden files (' + every
\* formatted name, sorted by path and joined by ', ' + ')', however long
\* the list is.
C26_HiddenMessage ==
    lastCall.op = "buildHiddenFilesCommitMessage" =>
        IF Len(lastCall.files) = 0
        THEN lastCall.result = ChoreUpdateHiddenFiles
        ELSE \E order \in Orders(Len(lastCall.files)) :
                 /\ SortedOrder(order, lastCall.files)
                 /\ lastCall.result =
                        ChoreUpdateHiddenFiles \o <<32, 40>>
                        \o Join(MarkedNames(order, lastCall.files), <<44, 32>>)
                        \o <<41>>

\* six hidden entries: all six are named and nothing is counted
C26_Witness ==
    /\ lastCall.op = "buildHiddenFilesCommitMessage"
    /\ Len(lastCall.files) = 6
    /\ \A i \in 1..6 : lastCall.files[i] = FileDiffStat(P_b, 0, 0)
    /\ lastCall.result =
           ChoreUpdateHiddenFiles \o <<32, 40>>
           \o P_b \o S_commaSpace \o P_b \o S_commaSpace \o P_b \o S_commaSpace
           \o P_b \o S_commaSpace \o P_b \o S_commaSpace \o P_b \o <<41>>

\* the entries of the list at the given positions, in the order of the list
EntriesAt(files, positions) ==
    LET idx == SelectSeq([i \in 1..Len(files) |-> i], LAMBDA i : i \in positions)
    IN [j \in 1..Len(idx) |-> files[idx[j]]]

\* the positions of the entries that have a segment starting with a dot
DotPositions(files) == {i \in 1..Len(files) : HasDotSegment(files[i].path)}

\* C27: categorizeFiles puts every input entry into exactly one of hidden
\* and regular, each of which keeps the input order, and an entry is in
\* hidden if and only if a '/'-delimited segment of its path begins with '.'.
C27_Partition ==
    lastCall.op = "categorizeFiles" =>
        /\ lastCall.result.hidden =
               EntriesAt(lastCall.files, DotPositions(lastCall.files))
        /\ lastCall.result.regular =
               EntriesAt(lastCall.files,
                         (1..Len(lastCall.files)) \ DotPositions(lastCall.files))
        /\ Len(lastCall.result.hidden) + Len(lastCall.result.regular)
               = Len(lastCall.files)

\* hidden entries given against the sort order, a regular one between them
C27_Witness ==
    /\ lastCall.op = "categorizeFiles"
    /\ lastCall.files = <<FileDiffStat(P_sub, 0, 0), FileDiffStat(P_B, 1, 3),
                          FileDiffStat(P_dot, 0, 0)>>
    /\ lastCall.result.hidden = <<FileDiffStat(P_sub, 0, 0), FileDiffStat(P_dot, 0, 0)>>
    /\ lastCall.result.regular = <<FileDiffStat(P_B, 1, 3)>>

\* a stat with no additions, no deletions and no net change
ZeroStat(path) == [path |-> path, additions |-> 0, deletions |-> 0, netChange |-> 0]

\* the numstat line is that of a binary file
IsBinaryLine(line) == line.addStr = <<45>> /\ line.delStr = <<45>>

\* C28: every stat getDiffStats returns has netChange = additions - deletions
\* with additions >= 0 and deletions >= 0, and the stats of untracked files
\* and of binary files are all zero.
C28_NetChange ==
    lastCall.op = "getDiffStats" =>
        LET git == lastCall.files[1]
            stats == lastCall.result
            tracked == IF git.tracking THEN Len(git.lines) ELSE 0
        IN /\ \A i \in 1..Len(stats) :
                  /\ stats[i].netChange = stats[i].additions - stats[i].deletions
                  /\ stats[i].additions >= 0
                  /\ stats[i].deletions >= 0
           /\ Len(stats) = tracked + Len(git.notAdded)
           /\ \A i \in 1..tracked :
                  IsBinaryLine(git.lines[i]) => stats[i] = ZeroStat(git.lines[i].path)
           /\ \A j \in 1..Len(git.notAdded) :
                  stats[tracked + j] = ZeroStat(git.notAdded[j])

\* a binary file, a text file with 3 additions and 12 deletions, and an
\* untracked file
C28_Witness ==
    /\ lastCall.op = "getDiffStats"
    /\ lastCall.files[1].tracking
    /\ lastCall.files[1].lines =
           <<[addStr |-> <<45>>, delStr |-> <<45>>, path |-> P_sub],
             [addStr |-> <<51>>, delStr |-> <<49, 50>>, path |-> P_B]>>
    /\ lastCall.files[1].notAdded = <<P_b>>
    /\ lastCall.result =
           <<ZeroStat(P_sub),
             [path |-> P_B, additions |-> 3, deletions |-> 12, netChange |-> 0 - 9],
             ZeroStat(P_b)>>

\* C29: with hidden-files handling 'never' no path that has a segment
\* starting with '.' is staged or committed by performCommit, in batch mode
\* as in individual mode.
C29_NeverCommitsHidden ==
    settings.hiddenFilesHandling = "never" =>
        \A r \in Records : \A p \in r.staged \cup Recorded(r) : ~HasDotSegment(p)

\* C30: getDiffStats returns an entry for every changed path, the modified
\* or deleted tracked files and the untracked files, whatever status git
\* reports, a repository without upstream tracking branch included.
C30_AllChangedPaths ==
    lastCall.op = "getDiffStats" =>
        LET git == lastCall.files[1]
            changed == {git.lines[i].path : i \in 1..Len(git.lines)}
                       \cup {git.notAdded[j] : j \in 1..Len(git.notAdded)}
        IN \A p \in changed : \E k \in 1..Len(lastCall.result) : lastCall.result[k].path = p

\* the lists a strategy can form from the stats of the snapshot: the entries
\* of some of its paths, in the order of the snapshot
SnapshotLists(stats) ==
    {SelectSeq(stats, LAMBDA stat : stat.path \in ps) : ps \in SUBSET SeqToSet(PathsOf(stats))}

\* the messages the three builders give for lists formed from the snapshot
SnapshotMessages(stats) ==
    UNION {{buildCommitMessage(l, settings.maxFilesInCommitMessage),
            buildHiddenFilesCommitMessage(l)} : l \in SnapshotLists(stats)}
    \cup {buildSingleFileCommitMessage(stats[k]) : k \in 1..Len(stats)}

\* the invocation has its result of getDiffStats and has been routed
HasSnapshot(r) == r.pc \in {"add", "commit", "next", "done"} /\ Len(r.calls) >= 1

C32_LastEditTimeWriter ==
    [][/\ lastEditTime' # lastEditTime => DebounceFires
       /\ DebounceFires => lastEditTime' = now /\ changeQueue' = {}
       /\ (changeTimeout' # changeTimeout \/ (changeQueue' # changeQueue /\ changeQueue' # {})) =>
              /\ changeQueue \subseteq changeQueue'
              /\ changeTimeout' = now + DebounceDelay
              /\ UNCHANGED <<lastEditTime, commitInProgress, currentStatus>>
       /\ (inv' # inv \/ lastCall'.op = "performCommit") =>
              UNCHANGED <<lastEditTime, changeQueue>>
       /\ lastEditTime' >= lastEditTime]_vars

\* the debounce callback has stamped lastEditTime and emptied the pending
\* set, a later change is queued, and an invocation is in flight
C32_Witness ==
    /\ lastEditTime > 1
    /\ changeQueue # {}
    /\ changeTimeout > lastEditTime + DebounceDelay
    /\ Active # {}

\* C33: buildSingleFileCommitMessage(stat) is the message buildCommitMessage
\* gives for the one-file list [stat], for every maxFiles >= 1 and for
\* maxFiles omitted: nothing is truncated.
C33_SingleIsBatchOfOne ==
    /\ lastCall.op = "buildSingleFileCommitMessage" =>
           /\ \A k \in 1..MaxFilesSetting :
                  lastCall.result = buildCommitMessage(lastCall.files, k)
           /\ lastCall.result = buildCommitMessage(lastCall.files, MaxFilesOption(Null))
    /\ (lastCall.op = "buildCommitMessage" /\ Len(lastCall.files) = 1) =>
           lastCall.result = buildSingleFileCommitMessage(lastCall.files[1])

\* the single-file message of a file with net deletions
C33_Witness ==
    /\ lastCall.op = "buildSingleFileCommitMessage"
    /\ lastCall.files = <<FileDiffStat(P_B, 1, 3)>>
    /\ lastCall.result = S_choreUpdate \o P_B \o S_deletes

\* C34: once onload has finished, GitStatus.state = committing implies
\* commitInProgress = true.
C34_CommittingUnderGuard ==
    (phase \in {"loaded", "disabled"} /\ currentStatus.state = "committing") =>
        commitInProgress

\* the second partial commit of an invocation is suspended in git commit
C34_Witness ==
    /\ phase = "loaded"
    /\ currentStatus.state = "committing"
    /\ \E i \in Slots : inv[i].pc = "commit" /\ Len(inv[i].calls) = 2

\* C37: when a stage+commit attempt fails, lastCommitTime and
\* lastCommitMessage keep the values they had before the attempt and only
\* the state changes, to error; lastCommitTime and lastCommitMessage are
\* both null or both set; lastCommitTime never decreases.
C37_LastCommitRecord ==
    /\ [](currentStatus.lastCommitTime = Null <=> currentStatus.lastCommitMessage = <<>>)
    /\ [][/\ \A i \in Slots :
                (PendingAttempt(i) /\ After(i).calls[Len(inv[i].calls)].result = "failed") =>
                    currentStatus'.state = "error"
          /\ (phase \in {"initAdd", "initCommit"} /\ currentStatus'.state # "committing"
                                                  /\ currentStatus'.lastCommitTime = Null) =>
                    currentStatus'.state = "error"
          /\ currentStatus'.state = "error" =>
                /\ currentStatus'.lastCommitTime = currentStatus.lastCommitTime
                /\ currentStatus'.lastCommitMessage = currentStatus.lastCommitMessage
          /\ currentStatus'.lastCommitTime >= currentStatus.lastCommitTime]_vars

\* a stageAndCommit call has failed after an earlier commit had succeeded
C37_Witness ==
    /\ settled.pc = "done"
    /\ settled.outcome = "failed"
    /\ Len(settled.calls) = 1
    /\ settled.calls[1].api = "stageAndCommit"
    /\ settled.calls[1].result = "failed"
    /\ currentStatus.state = "error"
    /\ currentStatus.lastCommitTime # Null
    /\ currentStatus.lastCommitTime < now

\* onload is inside initializeGit, between the answer of isGitRepo and the
\* end of the initial commit
InStartupCommit == phase \in {"initRepo", "initAdd", "initCommit"}

\* C39: while onload initialises the repository and makes the initial
\* commit, no listener, timer or command is registered and no performCommit
\* invocation exists; every invocation starts after that commit has ended,
\* so the unguarded startup commit never overlaps a performCommit.
C39_StartupAlone ==
    /\ [](InStartupCommit =>
             /\ Active = {}
             /\ ~commitInProgress
             /\ ~TimerActive(intervalTimer)
             /\ ~TimerActive(idleCheckTimer)
             /\ debouncePending = {}
             /\ changeQueue = {}
             /\ lastCall.op # "performCommit")
    /\ [](Active # {} => phase \in {"loaded", "unloaded"})
    /\ [](currentStatus.state = "committing" => (InStartupCommit <=> Active = {}))
    /\ [][InStartupCommit => UNCHANGED <<inv, commitInProgress, lastEditTime, changeQueue,
                                         changeTimeout, debouncePending>>]_vars

\* the initial commit is suspended in git commit, a file has changed and
\* the clock has advanced
C39_Witness ==
    /\ phase = "initCommit"
    /\ currentStatus.state = "committing"
    /\ worktree # {}
    /\ now > 1

C35_ConsistentSettings ==
    \A r \in Records : Len(r.calls) >= 1 => r.filterHidden = r.routeHidden

\* the timers of one kind are none, or the one timer the field refers to
OneTimer(timer) ==
    \/ timer = NoTimer
    \/ timer.handle # Null /\ timer.live = <<timer.handle>>

\* startTimers runs in this step: at the end of onload or of saveSettings
StartTimersRuns ==
    \/ phase # "loaded" /\ phase' = "loaded"
    \/ savePending /\ ~savePending'

\* C36: after any sequence of onload, saveSettings and onunload at most one
\* interval timer and at most one idle-poll timer are active, and each is
\* the one its field refers to, so no timer of an earlier startTimers keeps
\* firing; after startTimers the interval timer is active exactly if
\* enableIntervalCommit is set and the idle-poll timer exactly if
\* enableIdleCommit is set, and it is a timer set by this startTimers; after
\* stopTimers in onunload none is active.
C36_TimerUniqueness ==
    /\ [](OneTimer(intervalTimer) /\ OneTimer(idleCheckTimer))
    /\ [][StartTimersRuns =>
             /\ TimerActive(intervalTimer') <=> settings'.enableIntervalCommit
             /\ TimerActive(idleCheckTimer') <=> settings'.enableIdleCommit
             /\ TimerActive(intervalTimer') => intervalTimer'.handle # intervalTimer.handle
             /\ TimerActive(idleCheckTimer') => idleCheckTimer'.handle # idleCheckTimer.handle]_vars
    /\ [][(phase = "loaded" /\ phase' = "unloaded") =>
             ~TimerActive(intervalTimer') /\ ~TimerActive(idleCheckTimer')]_vars

\* idle commits have been switched off and the save has restarted the
\* timers: the interval timer is a new one, the idle-poll timer is gone
C36_Witness ==
    /\ phase = "loaded"
    /\ ~savePending
    /\ settings.enableIntervalCommit
    /\ ~settings.enableIdleCommit
    /\ intervalTimer = [handle |-> 1, live |-> <<1>>]
    /\ idleCheckTimer = NoTimer

\* C40: while the plugin stays loaded with interval commits enabled, the
\* interval timer keeps starting performCommit, whatever commits, file
\* changes and settings saves come between: saving the settings does not
\* postpone the next interval commit indefinitely.
C40_IntervalNotPostponed ==
    <>[](phase = "loaded" /\ settings.enableIntervalCommit) => []<><<IntervalFire>>_vars

====
